---------------------------- MODULE Spec2Model ----------------------------
(***************************************************************************)
(* Agro2Watch: the MATLAB model loader (model_loader.py) as a state        *)
(* machine.  The loader keeps a cache `models` of handles keyed by model   *)
(* name; load_model fills it, predict reads it and builds a prediction     *)
(* result.  Probabilities are exact rationals: a score vector is a record  *)
(* [num, den] holding a sequence of numerators over one denominator.       *)
(* Python's 0-based positions are written 1-based here.  loadCount is a    *)
(* history variable: how often a handle was constructed for a name (the    *)
(* artifact read, or the mock built).                                      *)
(***************************************************************************)
EXTENDS Integers, Sequences, FiniteSets, TLC

VARIABLES models, loadCount, rng, metadata, last, threads,
          tensor, manager, given, response, otp_verifications, calls

vars == <<models, loadCount, rng, metadata, last, threads,
          tensor, manager, given, response, otp_verifications, calls>>

(***************************************************************************)
(* Bounds of the model.                                                    *)
(***************************************************************************)
\* Real score vectors are every distribution in steps of 1/Scale.
Scale == 4
\* Handles constructed in one run (all model names together).
MaxLoads == 2
\* Generator states told apart after a seed: 1 .. RngPeriod.
RngPeriod == 3

(***************************************************************************)
(* settings.py                                                             *)
(***************************************************************************)
\* CONFIDENCE_THRESHOLD: float = 0.5, as the rational 1/2.
CONFIDENCE_THRESHOLD == [num |-> 1, den |-> 2]

CROP_HEALTH_MODEL == "crop_health_model.mat"
SOIL_ANALYSIS_MODEL == "soil_analysis_model.mat"
PEST_DETECTION_MODEL == "pest_detection_model.mat"

Registered == {"crop_health", "soil_analysis", "pest_detection"}

MODEL_CONFIG ==
    [m \in Registered |->
        CASE m = "crop_health" ->
               [file |-> CROP_HEALTH_MODEL,
                input_shape |-> <<224, 224, 3>>,
                classes |-> <<"healthy", "diseased", "nutrient_deficiency", "pest_damage">>,
                preprocessing |-> "normalize_rgb"]
          [] m = "soil_analysis" ->
               [file |-> SOIL_ANALYSIS_MODEL,
                input_shape |-> <<224, 224, 3>>,
                classes |-> <<"clay", "sandy", "loamy", "silt">>,
                preprocessing |-> "normalize_rgb"]
          [] m = "pest_detection" ->
               [file |-> PEST_DETECTION_MODEL,
                input_shape |-> <<224, 224, 3>>,
                classes |-> <<"aphids", "caterpillars", "beetles", "no_pest">>,
                preprocessing |-> "normalize_rgb"]]

\* The model names callers pass: the registered ones and one that is not.
ModelNames == Registered \cup {"not_a_real_model"}

(***************************************************************************)
(* Helpers on sequences.                                                   *)
(***************************************************************************)
Range(s) == {s[i] : i \in DOMAIN s}

RECURSIVE SumSeq(_)
SumSeq(s) == IF s = <<>> THEN 0 ELSE s[1] + SumSeq(Tail(s))

\* Every sequence of n naturals that sums to total.
Distributions(n, total) ==
    {v \in [1..n -> 0..total] : SumSeq(v) = total}

(***************************************************************************)
(* What load_model finds on disk: the file is missing, scipy.io.loadmat    *)
(* raises, or loadmat returns a dict with some set of keys.                *)
(***************************************************************************)
ArtifactContents ==
    {{"network"}, {"weights", "bias"}, {"classifier"}, {"weights"}}

DiskOutcomes ==
    {[exists |-> FALSE, loadmat |-> "not_called", keys |-> {}],
     [exists |-> TRUE, loadmat |-> "raises", keys |-> {}]}
    \cup {[exists |-> TRUE, loadmat |-> "ok", keys |-> k] : k \in ArtifactContents}

\* No handle under this name (the name is not a key of self.models).
NotLoaded == [loaded |-> FALSE, is_mock |-> FALSE, keys |-> {}, classes |-> <<>>]

\* numpy's global generator.  State 0 is the generator as the process got it
\* (seeded from the system's entropy: what it draws is unknown, and it stays
\* unknown until a seed); seed(42) puts it in state 1 and a draw moves a
\* seeded generator on.
RandomSeed(state) == 1
NextRandom(state) == IF state = 0 THEN 0 ELSE (state % RngPeriod) + 1

\* _create_mock_model: the config's classes, is_mock True, and two randn
\* arrays that nothing reads afterwards (the draws move the generator on).
CreateMockModel(model_name) ==
    [loaded |-> TRUE,
     is_mock |-> TRUE,
     keys |-> {"weights", "bias", "classes", "input_shape", "is_mock"},
     classes |-> MODEL_CONFIG[model_name].classes]

\* The dict loadmat returned, cached as it is.
MatData(disk) ==
    [loaded |-> TRUE, is_mock |-> FALSE, keys |-> disk.keys, classes |-> <<>>]

\* Lines 73-75: an unregistered name is logged and False comes back; the
\* cache is not touched.
RejectUnknownCached(cache, state) ==
    [ret |-> FALSE,
     models |-> [name \in DOMAIN cache |->
                    IF name \in DOMAIN MODEL_CONFIG THEN cache[name]
                    ELSE [loaded |-> TRUE, is_mock |-> TRUE, keys |-> {}, classes |-> <<>>]],
     rng |-> state, constructed |-> FALSE]

RejectUnknownAsLoaded(cache, state) ==
    [ret |-> TRUE, models |-> cache, rng |-> state, constructed |-> FALSE]

RejectUnknown(cache, state) ==
    [ret |-> FALSE, models |-> cache, rng |-> state, constructed |-> FALSE]

\* Whether load_model falls back to a mock: the file is missing (line 80) or
\* anything in the try block raises (line 94).
FallsBack(disk) == ~disk.exists \/ disk.loadmat = "raises"

\* The handle load_model stores for a registered name.
HandleForNoFallback(model_name, disk) == MatData(disk)

HandleFor(model_name, disk) ==
    IF FallsBack(disk) THEN CreateMockModel(model_name) ELSE MatData(disk)

\* load_model as a function of the name, the disk and the loader's state:
\* the value returned, the cache and the generator afterwards, and whether a
\* handle was constructed (the artifact read or a mock built).
LoadModelResult(model_name, disk, cache, state) ==
    IF model_name \notin DOMAIN MODEL_CONFIG
    THEN RejectUnknown(cache, state)
    ELSE [ret |-> TRUE,
          models |-> [cache EXCEPT ![model_name] = HandleFor(model_name, disk)],
          rng |-> IF FallsBack(disk) THEN NextRandom(NextRandom(state)) ELSE state,
          constructed |-> TRUE]

\* predict, line 172: model_name not in self.models.
CacheMissAlways(model_name, cache) == TRUE

CacheMiss(model_name, cache) == ~cache[model_name].loaded

(***************************************************************************)
(* Inference.  An inference step either yields a score vector or raises.   *)
(***************************************************************************)
NoScores == [num |-> <<>>, den |-> 1]

Yield(scores, state) == [raised |-> FALSE, error |-> "none", scores |-> scores, rng |-> state]
Raise(error, state) == [raised |-> TRUE, error |-> error, scores |-> NoScores, rng |-> state]

\* What is passed as model_name to _mock_prediction: a str, or (from
\* _matlab_inference) the list config["classes"] or the int len(config["classes"]).
StrArg(name) == [type |-> "str", val |-> name]
ListArg == [type |-> "list", val |-> ""]
IntArg == [type |-> "int", val |-> ""]

\* The draw np.random.dirichlet(np.ones(n) * 2) makes in generator state
\* `state`: positive, pairwise different shares of n(n+1)/2, a different
\* vector in each state.
Dirichlet(n, state) ==
    [num |-> [i \in 1..n |-> ((i + state) % n) + 1], den |-> (n * (n + 1)) \div 2]

\* _mock_prediction: MODEL_CONFIG[model_name] comes first, so a list raises
\* TypeError (unhashable) and an int or unregistered str raises KeyError
\* before the generator is touched; otherwise seed(42), then one draw.
MockPredictionUnseeded(arg, state) ==
    IF arg.type = "list" THEN Raise("TypeError", state)
    ELSE IF arg.type = "int" \/ arg.val \notin DOMAIN MODEL_CONFIG
    THEN Raise("KeyError", state)
    ELSE Yield(Dirichlet(Len(MODEL_CONFIG[arg.val].classes), state), NextRandom(state))

MockPrediction(arg, state) ==
    IF arg.type = "list" THEN Raise("TypeError", state)
    ELSE IF arg.type = "int" \/ arg.val \notin DOMAIN MODEL_CONFIG
    THEN Raise("KeyError", state)
    ELSE LET num_classes == Len(MODEL_CONFIG[arg.val].classes)
             seeded == RandomSeed(state)
         IN  Yield(Dirichlet(num_classes, seeded), NextRandom(seeded))

\* _classify_with_matlab_model: the placeholder np.array([0.7, 0.2, 0.1]).
ClassifyWithMatlabModel == [num |-> <<7, 2, 1>>, den |-> 10]

\* What a real artifact's arrays do with an image: _forward_pass_matlab_network
\* and the weights/bias branch end in _softmax, a distribution whose length is
\* that of the artifact's last layer, or np.dot raises on mismatched shapes.
OutLens == 3..5
SoftmaxOutputs ==
    UNION {{[num |-> v, den |-> Scale] : v \in Distributions(n, Scale)} : n \in OutLens}
RawOutcomes ==
    {[raises |-> TRUE, scores |-> NoScores]}
    \cup {[raises |-> FALSE, scores |-> s] : s \in SoftmaxOutputs}
NoRaw == [raises |-> FALSE, scores |-> NoScores]

\* The try block of _matlab_inference.
MatlabInferenceTry(model, raw, state) ==
    IF "network" \in model.keys
    THEN IF raw.raises THEN Raise("ValueError", state) ELSE Yield(raw.scores, state)
    ELSE IF "weights" \in model.keys /\ "bias" \in model.keys
    THEN IF raw.raises THEN Raise("ValueError", state) ELSE Yield(raw.scores, state)
    ELSE IF "classifier" \in model.keys
    THEN Yield(ClassifyWithMatlabModel, state)
    ELSE MockPrediction(ListArg, state)

\* _matlab_inference: on any exception, _mock_prediction(len(config["classes"])).
MatlabInference(model, raw, state) ==
    LET try == MatlabInferenceTry(model, raw, state)
    IN  IF try.raised THEN MockPrediction(IntArg, state) ELSE try

\* Whether the inference of this handle reads the artifact's arrays.
UsesArrays(model) ==
    /\ ~model.is_mock
    /\ \/ "network" \in model.keys
       \/ "weights" \in model.keys /\ "bias" \in model.keys

(***************************************************************************)
(* Building the result from the scores (predict, "Process predictions").   *)
(***************************************************************************)
\* np.argmax: the position of the first maximum, scanning left to right.
RECURSIVE ArgMaxFrom(_, _, _)
ArgMaxFrom(v, i, best) ==
    IF i > Len(v) THEN best
    ELSE ArgMaxFrom(v, i + 1, IF v[i] > v[best] THEN i ELSE best)

RECURSIVE ArgMaxLastFrom(_, _, _)
ArgMaxLastFrom(v, i, best) ==
    IF i > Len(v) THEN best
    ELSE ArgMaxLastFrom(v, i + 1, IF v[i] >= v[best] THEN i ELSE best)

ArgMaxLast(v) == ArgMaxLastFrom(v, 1, 1)

RECURSIVE ArgMinFrom(_, _, _)
ArgMinFrom(v, i, best) ==
    IF i > Len(v) THEN best
    ELSE ArgMinFrom(v, i + 1, IF v[i] < v[best] THEN i ELSE best)

ArgMin(v) == ArgMinFrom(v, 1, 1)

ArgMax(v) == ArgMaxFrom(v, 1, 1)

\* {class_names[i]: float(confidence_scores[i]) for i in range(len(class_names))}:
\* a later position with the same label overwrites an earlier one.
ClassProbabilitiesShort(class_names, scores) ==
    [c \in {class_names[i] : i \in 1..(Len(class_names) - 1)} |->
        [num |-> scores.num[CHOOSE i \in 1..Len(class_names) : class_names[i] = c],
         den |-> scores.den]]

ClassProbabilities(class_names, scores) ==
    [c \in Range(class_names) |->
        LET pos == CHOOSE i \in 1..Len(class_names) :
                       /\ class_names[i] = c
                       /\ \A j \in (i + 1)..Len(class_names) : class_names[j] # c
        IN  [num |-> scores.num[pos], den |-> scores.den]]

\* confidence >= settings.CONFIDENCE_THRESHOLD, on rationals.
ThresholdMetStrict(confidence) ==
    confidence.num * CONFIDENCE_THRESHOLD.den > CONFIDENCE_THRESHOLD.num * confidence.den

ThresholdMet(confidence) ==
    confidence.num * CONFIDENCE_THRESHOLD.den >= CONFIDENCE_THRESHOLD.num * confidence.den

NoResult ==
    [prediction |-> "", confidence |-> [num |-> 0, den |-> 1],
     class_probabilities |-> <<>>, model_name |-> "", model_version |-> "",
     threshold_met |-> FALSE]

\* Lines 187-211 of predict: the result, or the exception an index raises, or
\* the AttributeError of self.metadata.get on metadata that is not a dict.
BuildResult(model_name, scores, md) ==
    LET class_names == MODEL_CONFIG[model_name].classes
        confidence_scores == scores.num
    IN  IF Len(confidence_scores) = 0
        THEN [raised |-> TRUE, error |-> "ValueError", result |-> NoResult]
        ELSE LET predicted_class_idx == ArgMax(confidence_scores)
             IN  IF predicted_class_idx > Len(class_names)
                 THEN [raised |-> TRUE, error |-> "IndexError", result |-> NoResult]
                 ELSE IF Len(confidence_scores) < Len(class_names)
                 THEN [raised |-> TRUE, error |-> "IndexError", result |-> NoResult]
                 ELSE IF ~md.is_dict
                 THEN [raised |-> TRUE, error |-> "AttributeError", result |-> NoResult]
                 ELSE LET confidence ==
                              [num |-> confidence_scores[predicted_class_idx], den |-> scores.den]
                      IN  [raised |-> FALSE, error |-> "none",
                           result |->
                               [prediction |-> class_names[predicted_class_idx],
                                confidence |-> confidence,
                                class_probabilities |-> ClassProbabilities(class_names, scores),
                                model_name |-> model_name,
                                model_version |-> md.version,
                                threshold_met |-> ThresholdMet(confidence)]]


(***************************************************************************)
(* Metadata (load_metadata, run once by __init__).                         *)
(***************************************************************************)
\* is_dict: whether self.metadata is a dict (json.load returns whatever JSON
\* value the file holds).
CreateDefaultMetadata == [is_dict |-> TRUE, version |-> "1.0.0", models |-> Registered]

\* What json.load gives when there is nothing to parse: no value at all.
NoContent == [is_dict |-> FALSE, version |-> "(no value)", models |-> {}]

\* The metadata file: absent, unreadable, or a JSON object with a version.
MetadataFiles ==
    {[exists |-> FALSE, raises |-> FALSE, content |-> NoContent],
     [exists |-> TRUE, raises |-> TRUE, content |-> NoContent],
     [exists |-> TRUE, raises |-> FALSE,
      content |-> [is_dict |-> TRUE, version |-> "2.0.0", models |-> Registered]]}

\* A metadata file that parses to a JSON value that is not an object (a
\* list): json.load returns it and load_metadata stores it as it is.
NonObjectMetadataFiles ==
    {[exists |-> TRUE, raises |-> FALSE,
      content |-> [is_dict |-> FALSE, version |-> "", models |-> {}]]}

LoadMetadataFileOnly(file) == file.content

LoadMetadata(file) ==
    IF file.exists /\ ~file.raises THEN file.content ELSE CreateDefaultMetadata

\* get_model_info, line 324: self.metadata.get("models", {}) comes after the
\* registry check and raises AttributeError on metadata that is not a dict.
GetModelInfoError(model_name, md) ==
    IF model_name \in DOMAIN MODEL_CONFIG /\ ~md.is_dict THEN "AttributeError" ELSE "none"

(***************************************************************************)
(* get_model_info / list_available_models.                                 *)
(***************************************************************************)
EmptyInfo == [keys |-> {}, name |-> "", classes |-> <<>>, loaded |-> FALSE]

GetModelInfoResultAlwaysLoaded(model_name, cache) ==
    IF model_name \notin DOMAIN MODEL_CONFIG
    THEN EmptyInfo
    ELSE [keys |-> {"name", "file", "classes", "input_shape", "preprocessing",
                    "loaded", "metadata"},
          name |-> model_name,
          classes |-> MODEL_CONFIG[model_name].classes,
          loaded |-> TRUE]

GetModelInfoResult(model_name, cache) ==
    IF model_name \notin DOMAIN MODEL_CONFIG
    THEN EmptyInfo
    ELSE [keys |-> {"name", "file", "classes", "input_shape", "preprocessing",
                    "loaded", "metadata"},
          name |-> model_name,
          classes |-> MODEL_CONFIG[model_name].classes,
          loaded |-> cache[model_name].loaded]

ListAvailableModelsResult(cache) ==
    [name \in DOMAIN MODEL_CONFIG |-> GetModelInfoResult(name, cache)]

(***************************************************************************)
(* preprocess_image.  Only the shape of the pixel array matters here: an   *)
(* image is a PIL image (a mode and a size) or a numpy array (a shape).    *)
(***************************************************************************)
\* PIL sizes are (width, height).
ImageSizes == {<<150, 100>>, <<224, 224>>}

\* PIL modes: 8-bit grey, grey with alpha, RGB, RGB with alpha.
PILModes == {"L", "LA", "RGB", "RGBA"}

Bands(mode) ==
    CASE mode = "L" -> 1
      [] mode = "LA" -> 2
      [] mode = "RGB" -> 3
      [] mode = "RGBA" -> 4

PILImage(mode, size) == [source |-> "PIL", mode |-> mode, size |-> size, shape |-> <<>>]
NdArray(shape) == [source |-> "ndarray", mode |-> "", size |-> <<>>, shape |-> shape]
NoImage == [source |-> "none", mode |-> "", size |-> <<>>, shape |-> <<>>]

\* The arrays callers pass directly: (height, width) and (height, width, channels).
ArrayShapes ==
    {<<100, 150>>, <<224, 224>>}
    \cup {<<100, 150, c>> : c \in 1..4}

Images ==
    {PILImage(mode, size) : mode \in PILModes, size \in ImageSizes}
    \cup {NdArray(shape) : shape \in ArrayShapes}

\* Lines 127-128: np.array(image) of a PIL image has shape (height, width)
\* for a one-band mode and (height, width, bands) otherwise.
NpArray(image) ==
    IF image.source = "PIL"
    THEN IF Bands(image.mode) = 1
         THEN <<image.size[2], image.size[1]>>
         ELSE <<image.size[2], image.size[1], Bands(image.mode)>>
    ELSE image.shape

\* Lines 131-139: three channels pass, four go through COLOR_RGBA2RGB, a 2-D
\* array through COLOR_GRAY2RGB; any other shape is left as it is.
EnsureRGB(shape) ==
    IF Len(shape) = 3 /\ shape[3] = 3 THEN shape
    ELSE IF Len(shape) = 3 /\ shape[3] = 4 THEN <<shape[1], shape[2], 3>>
    ELSE IF Len(shape) = 2 THEN <<shape[1], shape[2], 3>>
    ELSE shape

\* cv2.resize(image, dsize): dsize is (width, height), so the result has
\* dsize[1] rows and dsize[0] columns; the channels are kept, except that a
\* single channel comes back as a 2-D array.
CvResize(shape, dsize) ==
    IF Len(shape) = 3 /\ shape[3] > 1
    THEN <<dsize[2], dsize[1], shape[3]>>
    ELSE <<dsize[2], dsize[1]>>

\* np.expand_dims(image, axis=0).
ExpandDims(shape) == <<1>> \o shape

\* Lines 146-149: the value range the preprocessing mode maps pixels into.
ValueRange(preprocessing) ==
    IF preprocessing = "standardize" THEN [lo |-> -1, hi |-> 1] ELSE [lo |-> 0, hi |-> 1]

NoTensor ==
    [called |-> FALSE, raised |-> FALSE, error |-> "none", shape |-> <<>>,
     range |-> [lo |-> 0, hi |-> 0], image |-> NoImage]

\* preprocess_image(image, model_name): MODEL_CONFIG[model_name] raises
\* KeyError for an unregistered name (line 123, re-raised at line 158).
PreprocessNoLookupError(image, model_name) ==
    [called |-> TRUE, raised |-> FALSE, error |-> "none",
     shape |-> ExpandDims(CvResize(EnsureRGB(NpArray(image)), <<224, 224>>)),
     range |-> ValueRange("normalize_rgb"), image |-> image]

PreprocessImageResult(image, model_name) ==
    IF model_name \notin DOMAIN MODEL_CONFIG
    THEN [called |-> TRUE, raised |-> TRUE, error |-> "KeyError", shape |-> <<>>,
          range |-> [lo |-> 0, hi |-> 0], image |-> image]
    ELSE LET config == MODEL_CONFIG[model_name]
             target_size == SubSeq(config.input_shape, 1, 2)
         IN  [called |-> TRUE, raised |-> FALSE, error |-> "none",
              shape |-> ExpandDims(CvResize(EnsureRGB(NpArray(image)), target_size)),
              range |-> ValueRange(config.preprocessing),
              image |-> image]

(***************************************************************************)
(* The interpretation the facades put on a prediction.  A float is the     *)
(* rational [num, den]; the code's comparisons with float literals are     *)
(* comparisons of cross products.                                          *)
(***************************************************************************)
\* Confidences handed to the interpretation functions: k/Grain, k in 0..Grain.
Grain == 100

Rational(num, den) == [num |-> num, den |-> den]

\* x >= num/den, x > num/den, x < num/den.
AtLeast(x, num, den) == x.num * den >= num * x.den
MoreThan(x, num, den) == x.num * den > num * x.den
LessThan(x, num, den) == x.num * den < num * x.den

\* features.get(key, default) on the dict extract_image_features returns.
FeatureGet(features, key, default) ==
    IF key \in features.has THEN features[key] ELSE default

(***************************************************************************)
(* crop_detection.py                                                       *)
(***************************************************************************)
\* _determine_health_status.
DetermineHealthStatus(prediction) ==
    CASE prediction = "healthy" -> "excellent"
      [] prediction = "nutrient_deficiency" -> "moderate"
      [] prediction = "diseased" -> "poor"
      [] prediction = "pest_damage" -> "critical"
      [] OTHER -> "unknown"

CalculateSeverity(prediction_result) ==
    IF prediction_result.prediction = "healthy" THEN "none"
    ELSE IF AtLeast(prediction_result.confidence, 8, 10) THEN "high"
    ELSE IF AtLeast(prediction_result.confidence, 6, 10) THEN "moderate"
    ELSE "low"

\* _assess_image_quality of crop_detection.py.
CropAssessImageQualityExcellent(features) == "excellent"

CropAssessImageQuality(features) ==
    LET sharpness == FeatureGet(features, "sharpness", 0)
        contrast == FeatureGet(features, "contrast", Rational(0, 1))
    IN  IF sharpness > 100 /\ MoreThan(contrast, 3, 10) THEN "excellent"
        ELSE IF sharpness > 50 /\ MoreThan(contrast, 2, 10) THEN "good"
        ELSE IF sharpness > 20 /\ MoreThan(contrast, 1, 10) THEN "fair"
        ELSE "poor"

\* _generate_crop_recommendations of crop_detection.py.
GenerateCropRecommendations(prediction, confidence, features) ==
    LET by_label ==
            CASE prediction = "healthy" ->
                   <<"Continue current crop management practices",
                     "Monitor regularly for early detection of issues",
                     "Maintain optimal irrigation and nutrition schedule">>
              [] prediction = "diseased" ->
                   <<"Identify specific disease through detailed examination",
                     "Apply appropriate fungicide or bactericide treatment",
                     "Improve air circulation and reduce humidity",
                     "Remove and destroy infected plant material",
                     "Consider resistant crop varieties for future planting">>
              [] prediction = "nutrient_deficiency" ->
                   <<"Conduct soil nutrient analysis",
                     "Apply balanced fertilizer based on soil test results",
                     "Check soil pH levels and adjust if necessary",
                     "Consider foliar feeding for quick nutrient uptake",
                     "Improve soil organic matter content">>
              [] prediction = "pest_damage" ->
                   <<"Identify specific pest species causing damage",
                     "Apply targeted pest control measures",
                     "Use integrated pest management (IPM) strategies",
                     "Monitor pest population levels regularly",
                     "Consider biological control agents">>
              [] OTHER -> <<>>
        by_confidence ==
            IF LessThan(confidence, CONFIDENCE_THRESHOLD.num, CONFIDENCE_THRESHOLD.den)
            THEN <<"Consider taking additional photos from different angles for better analysis">>
            ELSE <<>>
        by_quality ==
            IF CropAssessImageQuality(features) \in {"fair", "poor"}
            THEN <<"Retake photo with better lighting conditions",
                   "Ensure image is sharp and well-focused",
                   "Take photo during optimal lighting (avoid shadows)">>
            ELSE <<>>
    IN  by_label \o by_confidence \o by_quality

(***************************************************************************)
(* ai_models.py (AIModelManager) and server.py: their own severity tables. *)
(***************************************************************************)
\* AIModelManager._assess_severity.
AssessSeverity(status, confidence) ==
    IF status = "Healthy" THEN "None"
    ELSE IF MoreThan(confidence, 8, 10) THEN "High"
    ELSE IF MoreThan(confidence, 6, 10) THEN "Medium"
    ELSE "Low"

\* server.py, get_severity_level.
GetSeverityLevel(confidence, health_status) ==
    IF health_status = "healthy" THEN "low"
    ELSE IF MoreThan(confidence, 8, 10) THEN "high"
    ELSE IF MoreThan(confidence, 6, 10) THEN "medium"
    ELSE "low"

\* AIModelManager._generate_crop_recommendations.
ManagerCropRecommendations(status, confidence) ==
    CASE status = "Healthy" ->
           <<"Continue current care routine",
             "Monitor regularly for early detection of issues",
             "Maintain optimal watering schedule",
             "Consider preventive organic treatments">>
      [] status = "Diseased" ->
           <<"Isolate affected plants immediately",
             "Apply appropriate fungicide or bactericide",
             "Improve air circulation around plants",
             "Remove and dispose of infected plant material">>
      [] status = "Nutrient Deficiency" ->
           <<"Apply balanced fertilizer",
             "Test soil for specific nutrient deficiencies",
             "Consider organic compost application",
             "Adjust pH if necessary">>
      [] status = "Pest Damage" ->
           <<"Identify specific pest type",
             "Apply targeted pest control measures",
             "Introduce beneficial insects",
             "Remove heavily damaged plant parts">>
      [] OTHER -> <<"Consult with agricultural expert for specific guidance">>

(***************************************************************************)
(* soil_detection.py                                                       *)
(***************************************************************************)
\* The table of _analyze_soil_properties.
SoilPropertiesTable ==
    [clay |-> [drainage |-> "poor", water_retention |-> "high",
               nutrient_retention |-> "high", workability |-> "difficult",
               ph_tendency |-> "neutral_to_alkaline", organic_matter |-> "moderate",
               analysis_confidence |-> "(absent)"],
     sandy |-> [drainage |-> "excellent", water_retention |-> "low",
                nutrient_retention |-> "low", workability |-> "easy",
                ph_tendency |-> "acidic", organic_matter |-> "low",
                analysis_confidence |-> "(absent)"],
     loamy |-> [drainage |-> "good", water_retention |-> "moderate",
                nutrient_retention |-> "high", workability |-> "easy",
                ph_tendency |-> "neutral", organic_matter |-> "high",
                analysis_confidence |-> "(absent)"],
     silt |-> [drainage |-> "moderate", water_retention |-> "high",
               nutrient_retention |-> "moderate", workability |-> "moderate",
               ph_tendency |-> "neutral", organic_matter |-> "moderate",
               analysis_confidence |-> "(absent)"]]

\* dict.get(key, default) on a table keyed by label.
TableGetIgnoringKey(table, key, default) == default

TableGet(table, key, default) ==
    IF key \in DOMAIN table THEN table[key] ELSE default

\* max(probabilities.values()).
MaxProbability(probabilities) ==
    LET values == {probabilities[c] : c \in DOMAIN probabilities}
    IN  CHOOSE p \in values : \A q \in values : q.num * p.den <= p.num * q.den

\* _analyze_soil_properties: the table entry of the soil type (loamy's for a
\* type not in the table), organic_matter overwritten for a dark or a bright
\* image, analysis_confidence added below 0.7.
AnalyzeSoilProperties(soil_type, probabilities, features) ==
    LET base_props == TableGet(SoilPropertiesTable, soil_type, SoilPropertiesTable["loamy"])
        brightness == FeatureGet(features, "mean_brightness", 128)
        by_brightness ==
            IF brightness < 80 THEN [base_props EXCEPT !.organic_matter = "high"]
            ELSE IF brightness > 150 THEN [base_props EXCEPT !.organic_matter = "low"]
            ELSE base_props
    IN  IF LessThan(MaxProbability(probabilities), 7, 10)
        THEN [by_brightness EXCEPT !.analysis_confidence = "mixed_soil_type_detected"]
        ELSE by_brightness

\* The table of _assess_crop_suitability.
SuitabilityMap ==
    [clay |-> [excellent |-> <<"rice", "wheat", "cotton">>,
               good |-> <<"soybeans", "corn", "sugarcane">>,
               fair |-> <<"vegetables", "fruits">>,
               poor |-> <<"root_vegetables", "sandy_crops">>,
               irrigation_needs |-> "low_to_moderate",
               fertilizer_efficiency |-> "high"],
     sandy |-> [excellent |-> <<"carrots", "radishes", "potatoes">>,
                good |-> <<"tomatoes", "peppers", "herbs">>,
                fair |-> <<"corn", "soybeans">>,
                poor |-> <<"rice", "heavy_feeders">>,
                irrigation_needs |-> "high",
                fertilizer_efficiency |-> "low"],
     loamy |-> [excellent |-> <<"most_vegetables", "fruits", "grains">>,
                good |-> <<"all_major_crops">>,
                fair |-> <<>>,
                poor |-> <<>>,
                irrigation_needs |-> "moderate",
                fertilizer_efficiency |-> "high"],
     silt |-> [excellent |-> <<"vegetables", "small_grains">>,
               good |-> <<"corn", "soybeans", "wheat">>,
               fair |-> <<"root_crops">>,
               poor |-> <<"crops_needing_drainage">>,
               irrigation_needs |-> "low_to_moderate",
               fertilizer_efficiency |-> "moderate"]]

\* _assess_crop_suitability.
AssessCropSuitability(soil_type) ==
    TableGet(SuitabilityMap, soil_type, SuitabilityMap["loamy"])

\* _assess_image_quality of soil_detection.py.
SoilAssessImageQuality(features) ==
    LET sharpness == FeatureGet(features, "sharpness", 0)
        contrast == FeatureGet(features, "contrast", Rational(0, 1))
        brightness == FeatureGet(features, "mean_brightness", 128)
        quality_score ==
            (IF 50 < brightness /\ brightness < 200 THEN 1 ELSE 0)
            + (IF sharpness > 30 THEN 1 ELSE 0)
            + (IF MoreThan(contrast, 15, 100) THEN 1 ELSE 0)
    IN  CASE quality_score = 3 -> "excellent"
          [] quality_score = 2 -> "good"
          [] quality_score = 1 -> "fair"
          [] OTHER -> "poor"

\* _generate_soil_recommendations.
GenerateSoilRecommendations(soil_type, confidence, properties) ==
    LET by_type ==
            CASE soil_type = "clay" ->
                   <<"Improve drainage with organic matter addition",
                     "Avoid working soil when wet to prevent compaction",
                     "Consider raised beds for better drainage",
                     "Add compost or aged manure to improve structure",
                     "Plant cover crops to improve soil biology">>
              [] soil_type = "sandy" ->
                   <<"Increase organic matter to improve water retention",
                     "Use mulch to reduce water evaporation",
                     "Apply fertilizers in smaller, frequent doses",
                     "Consider drip irrigation for water efficiency",
                     "Plant nitrogen-fixing cover crops">>
              [] soil_type = "loamy" ->
                   <<"Maintain current soil management practices",
                     "Continue regular organic matter additions",
                     "Monitor soil pH and nutrient levels",
                     "Practice crop rotation for soil health",
                     "Protect soil with cover crops during off-season">>
              [] soil_type = "silt" ->
                   <<"Prevent erosion with proper ground cover",
                     "Avoid overwatering to prevent waterlogging",
                     "Add organic matter to improve structure",
                     "Consider contour farming on slopes",
                     "Monitor for compaction issues">>
              [] OTHER -> <<>>
        drainage == properties.drainage
        by_drainage ==
            IF drainage = "poor"
            THEN <<"Install drainage tiles or create drainage channels">>
            ELSE IF drainage = "excellent"
            THEN <<"Implement water conservation practices">>
            ELSE <<>>
        by_confidence ==
            IF LessThan(confidence, CONFIDENCE_THRESHOLD.num, CONFIDENCE_THRESHOLD.den)
            THEN <<"Consider professional soil testing for accurate analysis",
                   "Take multiple soil samples from different areas">>
            ELSE <<>>
    IN  by_type \o by_drainage \o by_confidence

(***************************************************************************)
(* What a facade call was given and what it answered.                      *)
(***************************************************************************)
NoFeatures ==
    [has |-> {}, sharpness |-> 0, contrast |-> Rational(0, 1), mean_brightness |-> 0]

NoBytes == [decodable |-> FALSE, mode |-> "", size |-> <<>>]

NoGiven ==
    [kind |-> "none", label |-> "", confidence |-> Rational(0, 1),
     probabilities |-> <<>>, features |-> NoFeatures,
     content_type |-> "", too_large |-> FALSE, image_bytes |-> NoBytes]

NoProperties ==
    [drainage |-> "", water_retention |-> "", nutrient_retention |-> "",
     workability |-> "", ph_tendency |-> "", organic_matter |-> "",
     analysis_confidence |-> "(absent)"]

NoSuitability ==
    [excellent |-> <<>>, good |-> <<>>, fair |-> <<>>, poor |-> <<>>,
     irrigation_needs |-> "", fertilizer_efficiency |-> ""]

\* outcome is "return" or "raise"; inner_error is the exception raised inside
\* the facade, if any; canned tells a fixed mock answer from a computed one;
\* keys are the keys of the dict an AIModelManager method returns.
NoResponse ==
    [fn |-> "none", outcome |-> "none", error |-> "none", status_code |-> 0,
     inner_error |-> "none", canned |-> FALSE, keys |-> {},
     prediction |-> "", confidence |-> Rational(0, 1), threshold_met |-> FALSE,
     health_status |-> "", severity |-> "", image_quality |-> "",
     health_score |-> 0, detected_issues |-> <<>>,
     recommendations |-> <<>>, properties |-> NoProperties,
     suitability |-> NoSuitability]

\* round(x, 3): the nearest multiple of 1/1000, a tie going to the even one.
Round3(x) ==
    LET scaled == x.num * 1000
        q == scaled \div x.den
        r == scaled % x.den
    IN  Rational(IF 2 * r > x.den \/ (2 * r = x.den /\ q % 2 = 1) THEN q + 1 ELSE q, 1000)

\* raise HTTPException(status_code=..., detail=...).
HTTPException(fn, status_code, inner_error) ==
    [NoResponse EXCEPT !.fn = fn, !.outcome = "raise", !.error = "HTTPException",
                       !.status_code = status_code, !.inner_error = inner_error]

\* crop_detection.py, analyze_crop_health, lines 40-71: the response built
\* from predict's result and the image's features.
CropAnalysisResponse(prediction_result, image_features) ==
    [NoResponse EXCEPT
        !.fn = "crop_detection.analyze_crop_health",
        !.outcome = "return",
        !.prediction = prediction_result.prediction,
        !.confidence = Round3(prediction_result.confidence),
        !.threshold_met = prediction_result.threshold_met,
        !.health_status = DetermineHealthStatus(prediction_result.prediction),
        !.severity = CalculateSeverity(prediction_result),
        !.image_quality = CropAssessImageQuality(image_features),
        !.recommendations =
            GenerateCropRecommendations(prediction_result.prediction,
                                        prediction_result.confidence, image_features)]

\* soil_detection.py, analyze_soil_type, lines 39-78.
SoilAnalysisResponse(prediction_result, image_features) ==
    LET soil_properties ==
            AnalyzeSoilProperties(prediction_result.prediction,
                                  prediction_result.class_probabilities, image_features)
    IN  [NoResponse EXCEPT
            !.fn = "soil_detection.analyze_soil_type",
            !.outcome = "return",
            !.prediction = prediction_result.prediction,
            !.confidence = Round3(prediction_result.confidence),
            !.threshold_met = prediction_result.threshold_met,
            !.properties = soil_properties,
            !.suitability = AssessCropSuitability(prediction_result.prediction),
            !.image_quality = SoilAssessImageQuality(image_features),
            !.recommendations =
                GenerateSoilRecommendations(prediction_result.prediction,
                                            prediction_result.confidence, soil_properties)]

(***************************************************************************)
(* ai_models.py: AIModelManager, and image_processing.py.                  *)
(***************************************************************************)
\* The process AIModelManager() is constructed in: whether tensorflow
\* imported, and for each model file whether it is missing, loads, or makes
\* tf.keras.models.load_model raise; whether models/crop_classes.json is there.
ArtifactStates == {"missing", "ok", "raises"}

TfEnvs ==
    [tf : BOOLEAN, crop_file : ArtifactStates, pest_file : ArtifactStates,
     soil_file : ArtifactStates, classes_file : {"missing", "ok"}]

\* _load_crop_classes: the file's list, or the default labels.
DefaultCropClasses ==
    <<"Healthy", "Diseased", "Nutrient Deficiency", "Pest Damage",
      "Water Stress", "Fungal Infection", "Bacterial Infection", "Viral Infection">>

LoadCropClasses(env) ==
    IF env.classes_file = "ok"
    THEN <<"Healthy", "Diseased", "Nutrient Deficiency", "Pest Damage">>
    ELSE DefaultCropClasses

\* One `if tf and hasattr(...) and Path(...).exists()` block of _load_models.
LoadOne(tf, file) ==
    IF tf /\ file # "missing"
    THEN IF file = "raises" THEN "raise" ELSE "loaded"
    ELSE "None"

\* No process: nothing imported, no files.
NoEnv ==
    [tf |-> FALSE, crop_file |-> "missing", pest_file |-> "missing",
     soil_file |-> "missing", classes_file |-> "missing"]

\* _load_models: the three blocks sit in one try; an exception in a block
\* ends the method, and the models after it keep their None.  env keeps the
\* process the manager was constructed in.
LoadModels(env) ==
    LET crop == LoadOne(env.tf, env.crop_file)
        pest == IF crop = "raise" THEN "skipped" ELSE LoadOne(env.tf, env.pest_file)
        soil == IF crop = "raise" \/ pest \in {"raise", "skipped"}
                THEN "skipped" ELSE LoadOne(env.tf, env.soil_file)
        AsHandle(x) == IF x = "loaded" THEN "loaded" ELSE "None"
    IN  [crop_model |-> AsHandle(crop), pest_model |-> AsHandle(pest),
         soil_model |-> AsHandle(soil), crop_classes |-> LoadCropClasses(env),
         env |-> env]

\* No AIModelManager in this process.
NoManager ==
    [crop_model |-> "None", pest_model |-> "None", soil_model |-> "None",
     crop_classes |-> <<>>, env |-> NoEnv]

\* Uploaded bytes: not an image, or an encoded image of a mode and a size.
ImageBytes ==
    {NoBytes}
    \cup {[decodable |-> TRUE, mode |-> mode, size |-> <<150, 100>>] : mode \in {"L", "RGBA"}}

\* ImageProcessor.validate_image: Image.open and verify, False on any exception.
ValidateImage(image_bytes) == image_bytes.decodable

\* ImageProcessor._preprocess_common: Image.open raises on bytes that are not
\* an image; otherwise convert to RGB, resize to size (width, height), scale
\* to [0,1] and prepend the batch dimension.
PreprocessCommon(image_bytes, size) ==
    IF ~image_bytes.decodable
    THEN [raised |-> TRUE, error |-> "UnidentifiedImageError", shape |-> <<>>]
    ELSE [raised |-> FALSE, error |-> "none",
          shape |-> ExpandDims(<<size[2], size[1], 3>>)]

\* What crop_model.predict does: raises, or returns one row of scores.
TfVector(n, i, c) ==
    [num |-> [j \in 1..n |-> IF j = i THEN c
                             ELSE IF j = (i % n) + 1 THEN Grain - c ELSE 0],
     den |-> Grain]

TfOutcomes ==
    {[raises |-> TRUE, scores |-> NoScores]}
    \cup UNION {{[raises |-> FALSE, scores |-> TfVector(n, i, c)] :
                     i \in {1, 2, 3, n}, c \in {50, 80, 92}} : n \in {8, 9}}

\* _mock_crop_analysis.
MockCropAnalysis ==
    [NoResponse EXCEPT
        !.fn = "AIModelManager.analyze_crop_health",
        !.outcome = "return",
        !.canned = TRUE,
        !.keys = {"status", "confidence", "health_score", "recommendations",
                  "detected_issues", "severity"},
        !.prediction = "Healthy",
        !.confidence = Rational(92, 100),
        !.health_score = 85,
        !.recommendations = <<"Continue current care routine",
                              "Monitor for any changes in leaf color",
                              "Ensure adequate watering",
                              "Consider organic fertilizer application">>,
        !.detected_issues = <<>>,
        !.severity = "Low"]

\* _identify_crop_issues.
IdentifyCropIssues(predictions) ==
    (IF Len(predictions.num) > 1 /\ MoreThan(Rational(predictions.num[2], predictions.den), 3, 10)
     THEN <<"Potential disease detected">> ELSE <<>>)
    \o (IF Len(predictions.num) > 2 /\ MoreThan(Rational(predictions.num[3], predictions.den), 3, 10)
        THEN <<"Nutrient deficiency signs">> ELSE <<>>)

\* AIModelManager.analyze_crop_health: the canned answer when there is no
\* model, and (line 134) whenever anything in the try block raises.
ManagerAnalyzeCropHealthResult(mgr, image_bytes, tfout) ==
    IF mgr.crop_model = "None" THEN MockCropAnalysis
    ELSE LET processed_image == PreprocessCommon(image_bytes, <<224, 224>>)
         IN  IF processed_image.raised
             THEN [MockCropAnalysis EXCEPT !.inner_error = processed_image.error]
             ELSE IF tfout.raises
             THEN [MockCropAnalysis EXCEPT !.inner_error = "ValueError"]
             ELSE LET predictions == tfout.scores
                      predicted_class_idx == ArgMax(predictions.num)
                      confidence == Rational(predictions.num[predicted_class_idx], predictions.den)
                  IN  IF predicted_class_idx > Len(mgr.crop_classes)
                      THEN [MockCropAnalysis EXCEPT !.inner_error = "IndexError"]
                      ELSE LET predicted_class == mgr.crop_classes[predicted_class_idx]
                           IN  [NoResponse EXCEPT
                                   !.fn = "AIModelManager.analyze_crop_health",
                                   !.outcome = "return",
                                   !.keys = {"status", "confidence", "health_score",
                                             "recommendations", "detected_issues",
                                             "severity"},
                                   !.prediction = predicted_class,
                                   !.confidence = confidence,
                                   !.health_score =
                                       IF Len(predictions.num) > 1
                                       THEN ((predictions.den - predictions.num[2]) * 100)
                                                \div predictions.den
                                       ELSE 85,
                                   !.recommendations =
                                       ManagerCropRecommendations(predicted_class, confidence),
                                   !.detected_issues = IdentifyCropIssues(predictions),
                                   !.severity = AssessSeverity(predicted_class, confidence)]

\* _load_pest_classes and _load_soil_classes with no classes file: the
\* default labels.
DefaultPestClasses ==
    <<"No Pest", "Aphids", "Whiteflies", "Thrips", "Spider Mites",
      "Caterpillars", "Beetles", "Leaf Miners", "Scale Insects">>

DefaultSoilClasses == <<"Clay", "Sandy", "Loamy", "Silty", "Peaty", "Chalky", "Saline">>

\* _assess_pest_severity.
AssessPestSeverity(pest_type, confidence) ==
    IF pest_type = "No Pest" THEN "None"
    ELSE IF MoreThan(confidence, 8, 10) THEN "High"
    ELSE IF MoreThan(confidence, 6, 10) THEN "Medium"
    ELSE "Low"

\* _mock_pest_detection.
MockPestDetectionEmpty == [NoResponse EXCEPT !.outcome = "return", !.canned = TRUE]

MockPestDetection ==
    [NoResponse EXCEPT
        !.outcome = "return",
        !.canned = TRUE,
        !.keys = {"pest_detected", "pest_type", "confidence", "severity",
                  "treatment_recommendations", "prevention_tips", "economic_impact"},
        !.prediction = "Aphids",
        !.confidence = Rational(87, 100),
        !.severity = "Medium"]

\* _mock_soil_analysis.
MockSoilAnalysis ==
    [NoResponse EXCEPT
        !.outcome = "return",
        !.canned = TRUE,
        !.keys = {"soil_type", "confidence", "ph_level", "moisture_content",
                  "nutrient_levels", "organic_matter", "fertility_score",
                  "recommendations", "suitable_crops"},
        !.prediction = "Loamy",
        !.confidence = Rational(89, 100),
        !.recommendations = <<"Soil pH is optimal for most crops",
                              "Consider adding organic compost",
                              "Monitor moisture levels regularly">>]

\* AIModelManager.detect_pests: the canned answer when there is no model and
\* (line 168) whenever anything in the try block raises; otherwise the dict
\* of lines 158-166 (pest_type is None when no pest is detected).
ManagerDetectPestsResult(mgr, image_bytes, tfout) ==
    LET fn == "AIModelManager.detect_pests"
        mock == [MockPestDetection EXCEPT !.fn = fn]
    IN  IF mgr.pest_model = "None" THEN mock
        ELSE LET processed_image == PreprocessCommon(image_bytes, <<224, 224>>)
             IN  IF processed_image.raised
                 THEN [mock EXCEPT !.inner_error = processed_image.error]
                 ELSE IF tfout.raises
                 THEN [mock EXCEPT !.inner_error = "ValueError"]
                 ELSE LET predictions == tfout.scores
                          predicted_class_idx == ArgMax(predictions.num)
                          confidence == Rational(predictions.num[predicted_class_idx],
                                                 predictions.den)
                      IN  IF predicted_class_idx > Len(DefaultPestClasses)
                          THEN [mock EXCEPT !.inner_error = "IndexError"]
                          ELSE LET predicted_pest == DefaultPestClasses[predicted_class_idx]
                                   pest_detected == predicted_pest # "No Pest"
                                                       /\ MoreThan(confidence, 5, 10)
                               IN  [NoResponse EXCEPT
                                       !.fn = fn,
                                       !.outcome = "return",
                                       !.keys = {"pest_detected", "pest_type", "confidence",
                                                 "severity", "treatment_recommendations",
                                                 "prevention_tips", "economic_impact"},
                                       !.prediction = IF pest_detected THEN predicted_pest
                                                      ELSE "None",
                                       !.confidence = confidence,
                                       !.severity = AssessPestSeverity(predicted_pest,
                                                                       confidence)]

\* AIModelManager.analyze_soil: the canned answer when there is no model and
\* (line 204) whenever anything in the try block raises; otherwise the dict
\* of lines 192-202.  The property values are drawn at random in
\* _analyze_soil_properties and are not kept here.
ManagerAnalyzeSoilResult(mgr, image_bytes, tfout) ==
    LET fn == "AIModelManager.analyze_soil"
        mock == [MockSoilAnalysis EXCEPT !.fn = fn]
    IN  IF mgr.soil_model = "None" THEN mock
        ELSE LET processed_image == PreprocessCommon(image_bytes, <<224, 224>>)
             IN  IF processed_image.raised
                 THEN [mock EXCEPT !.inner_error = processed_image.error]
                 ELSE IF tfout.raises
                 THEN [mock EXCEPT !.inner_error = "ValueError"]
                 ELSE LET predictions == tfout.scores
                          soil_type_idx == ArgMax(predictions.num)
                      IN  IF soil_type_idx > Len(DefaultSoilClasses)
                          THEN [mock EXCEPT !.inner_error = "IndexError"]
                          ELSE [NoResponse EXCEPT
                                   !.fn = fn,
                                   !.outcome = "return",
                                   !.keys = {"soil_type", "confidence", "ph_level",
                                             "moisture_content", "nutrient_levels",
                                             "organic_matter", "fertility_score",
                                             "recommendations", "suitable_crops"},
                                   !.prediction = DefaultSoilClasses[soil_type_idx],
                                   !.confidence = Rational(predictions.num[soil_type_idx],
                                                           predictions.den)]

\* content_type.startswith('image/').
ImageContentTypes == {"image/png", "image/jpeg"}

\* ai_analysis.py, analyze_crop_health: 400 for a wrong content type, a file
\* too large or bytes validate_image rejects; otherwise the manager's answer.
AiAnalysisCropResult(mgr, upload, tfout) ==
    LET fn == "ai_analysis.analyze_crop_health"
    IN  IF upload.content_type \notin ImageContentTypes THEN HTTPException(fn, 400, "none")
        ELSE IF upload.too_large THEN HTTPException(fn, 400, "none")
        ELSE IF ~ValidateImage(upload.image_bytes) THEN HTTPException(fn, 400, "none")
        ELSE [ManagerAnalyzeCropHealthResult(mgr, upload.image_bytes, tfout) EXCEPT !.fn = fn]

(***************************************************************************)
(* twilio_service.py: one-time passwords.  The collection of               *)
(* OTPVerification documents is kept in insertion order, which is the      *)
(* order of created_at; a document's position is its _id.                  *)
(***************************************************************************)
\* max_attempts: int = 3.
DefaultMaxAttempts == 3

\* The documents send_sms_otp inserts in a run.
MaxOtps == 2

Phones == {"+15550100"}
Purposes == {"login", "registration"}

\* generate_otp: six random digits; two of the codes it can give.
OtpCodes == {"111111", "222222"}

\* The coroutines that run verify_otp.
Callers == {"c1", "c2"}

\* OTPVerification(phone=..., otp_code=..., purpose=..., expires_at=now + 5 min).
\* expired tells whether expires_at has passed; accepted counts the
\* verify_otp calls that succeeded against the document.
OTPVerification(phone, otp_code, purpose) ==
    [phone |-> phone, otp_code |-> otp_code, purpose |-> purpose,
     is_verified |-> FALSE, expired |-> FALSE, attempts |-> 0,
     max_attempts |-> DefaultMaxAttempts, accepted |-> 0]

\* find_one({phone, purpose, is_verified: False, expires_at > now},
\* sort=[("created_at", -1)]): the _id of the newest match, 0 for None.
FindOne(docs, phone, purpose) ==
    LET matches == {i \in DOMAIN docs :
                       /\ docs[i].phone = phone
                       /\ docs[i].purpose = purpose
                       /\ ~docs[i].is_verified
                       /\ ~docs[i].expired}
    IN  IF matches = {} THEN 0
        ELSE CHOOSE i \in matches : \A j \in matches : j <= i

\* Whether a document was inserted after document id for its phone and purpose.
Superseded(docs, id) ==
    \E j \in DOMAIN docs :
        /\ j > id
        /\ docs[j].phone = docs[id].phone
        /\ docs[j].purpose = docs[id].purpose

\* otp_doc as verify_otp holds it after find_one: a copy, not refreshed.
\* superseded: whether a newer document was there when it was read.
NoDoc == [id |-> 0, otp_code |-> "", attempts |-> 0, max_attempts |-> 0,
          superseded |-> FALSE]

\* The dict verify_otp returns.
NoOtpResult == [success |-> FALSE, error_code |-> "none"]
OtpFailure(error_code) == [success |-> FALSE, error_code |-> error_code]
OtpSuccess == [success |-> TRUE, error_code |-> "none"]

\* A coroutine not in verify_otp.  otp_code is the submitted code, kept
\* while the call still has to compare it.
IdleCall ==
    [pc |-> "idle", otp_code |-> "", otp_doc |-> NoDoc, result |-> NoOtpResult]

\* A call that has its answer: the codes it held are dropped.
Answered(call, result) ==
    [call EXCEPT !.pc = "done", !.otp_code = "", !.otp_doc.otp_code = "",
                 !.result = result]

(***************************************************************************)
(* The loader's state.  `last` is the outcome of the call that has just    *)
(* run, until the caller has taken it; Idle between calls.                 *)
(***************************************************************************)
RECURSIVE SumOver(_, _)
SumOver(f, S) ==
    IF S = {} THEN 0
    ELSE LET x == CHOOSE y \in S : TRUE IN f[x] + SumOver(f, S \ {x})

TotalLoads == SumOver(loadCount, ModelNames)

NoDisk == [exists |-> FALSE, loadmat |-> "not_called", keys |-> {}]

Outcome(op, name, error, ret, scores, result, info, listing, load, disk) ==
    [op |-> op, name |-> name, disk |-> disk,
     outcome |-> IF error = "none" THEN "return" ELSE "raise",
     error |-> error, ret |-> ret, scores |-> scores, result |-> result,
     info |-> info, listing |-> listing, loaded_now |-> load]

NoListing == [name \in {} |-> EmptyInfo]

\* The request handlers of the threaded specification.
Threads == {"t1", "t2"}

NoOut == [error |-> "none", scores |-> NoScores]

IdleThread == [pc |-> "idle", name |-> "", handle |-> NotLoaded, out |-> NoOut]

Idle == Outcome("idle", "", "none", FALSE, NoScores, NoResult, EmptyInfo, NoListing, FALSE, NoDisk)

Init ==
    /\ models = [name \in ModelNames |-> NotLoaded]
    /\ loadCount = [name \in ModelNames |-> 0]
    /\ rng = 0
    /\ \E file \in MetadataFiles : metadata = LoadMetadata(file)
    /\ last = Idle
    /\ threads = [t \in Threads |-> IdleThread]
    /\ tensor = NoTensor
    /\ manager = NoManager
    /\ given = NoGiven
    /\ response = NoResponse
    /\ otp_verifications = <<>>
    /\ calls = [c \in Callers |-> IdleCall]

\* load_model(model_name), called by itself.
LoadModel(model_name, disk) ==
    LET lr == LoadModelResult(model_name, disk, models, rng)
    IN  /\ last = Idle
        /\ lr.constructed => TotalLoads < MaxLoads
        /\ models' = lr.models
        /\ rng' = lr.rng
        /\ loadCount' = IF lr.constructed
                        THEN [loadCount EXCEPT ![model_name] = @ + 1]
                        ELSE loadCount
        /\ last' = Outcome("load_model", model_name, "none", lr.ret, NoScores, NoResult,
                           EmptyInfo, NoListing, lr.constructed,
                           IF lr.constructed THEN disk ELSE NoDisk)
        /\ UNCHANGED <<metadata, threads, tensor, manager, given, response, otp_verifications, calls>>

\* predict(image, model_name): load on a cache miss, infer, build the result.
PredictCall(model_name, disk, raw) ==
    LET miss == CacheMiss(model_name, models)
        seen == IF miss /\ model_name \in DOMAIN MODEL_CONFIG THEN disk ELSE NoDisk
        lr == IF miss
              THEN LoadModelResult(model_name, disk, models, rng)
              ELSE [ret |-> TRUE, models |-> models, rng |-> rng, constructed |-> FALSE]
    IN  /\ last = Idle
        /\ lr.constructed => TotalLoads < MaxLoads
        /\ models' = lr.models
        /\ loadCount' = IF lr.constructed
                        THEN [loadCount EXCEPT ![model_name] = @ + 1]
                        ELSE loadCount
        /\ UNCHANGED <<metadata, threads, otp_verifications, calls>>
        /\ IF ~lr.ret
           THEN /\ rng' = lr.rng
                /\ last' = Outcome("predict", model_name, "ValueError", FALSE, NoScores,
                                   NoResult, EmptyInfo, NoListing, lr.constructed, seen)
           ELSE LET model == lr.models[model_name]
                    inf == IF model.is_mock
                           THEN MockPrediction(StrArg(model_name), lr.rng)
                           ELSE MatlabInference(model, raw, lr.rng)
                    built == BuildResult(model_name, inf.scores, metadata)
                IN  /\ rng' = inf.rng
                    /\ last' =
                         IF inf.raised
                         THEN Outcome("predict", model_name, inf.error, FALSE, NoScores,
                                      NoResult, EmptyInfo, NoListing, lr.constructed, seen)
                         ELSE Outcome("predict", model_name, built.error, FALSE, inf.scores,
                                      built.result, EmptyInfo, NoListing, lr.constructed, seen)

\* predict called by itself.
Predict(model_name, disk, raw) ==
    /\ PredictCall(model_name, disk, raw)
    /\ UNCHANGED <<tensor, manager, given, response, otp_verifications, calls>>

\* preprocess_image(image, model_name), called by itself: the loader's state
\* is not touched.
PreprocessImage(image, model_name) ==
    LET pre == PreprocessImageResult(image, model_name)
    IN  /\ last = Idle
        /\ tensor' = pre
        /\ last' = Outcome("preprocess_image", model_name, pre.error, FALSE, NoScores,
                           NoResult, EmptyInfo, NoListing, FALSE, NoDisk)
        /\ UNCHANGED <<models, loadCount, rng, metadata, threads, manager, given, response, otp_verifications, calls>>

\* get_model_info(model_name).
GetModelInfo(model_name) ==
    /\ last = Idle
    /\ last' = LET error == GetModelInfoError(model_name, metadata)
               IN  Outcome("get_model_info", model_name, error, FALSE, NoScores, NoResult,
                           IF error = "none" THEN GetModelInfoResult(model_name, models)
                           ELSE EmptyInfo,
                           NoListing, FALSE, NoDisk)
    /\ UNCHANGED <<models, loadCount, rng, metadata, threads, tensor, manager, given, response, otp_verifications, calls>>

\* list_available_models().
ListAvailableModels ==
    /\ last = Idle
    /\ last' = LET error == IF \E name \in DOMAIN MODEL_CONFIG :
                                    GetModelInfoError(name, metadata) # "none"
                            THEN "AttributeError" ELSE "none"
               IN  Outcome("list_available_models", "", error, FALSE, NoScores, NoResult,
                           EmptyInfo,
                           IF error = "none" THEN ListAvailableModelsResult(models)
                           ELSE NoListing,
                           FALSE, NoDisk)
    /\ UNCHANGED <<models, loadCount, rng, metadata, threads, tensor, manager, given, response, otp_verifications, calls>>

\* The caller takes the value returned (or the exception raised): results
\* are per request and not retained by the loader.
Respond ==
    /\ last # Idle
    /\ last' = Idle
    /\ tensor' = NoTensor
    /\ UNCHANGED <<models, loadCount, rng, metadata, threads, manager, given, response, otp_verifications, calls>>

\* The disk outcomes a call can meet: load_model looks at the disk for a
\* registered name, predict only when it has to load.
DisksFor(model_name) ==
    IF model_name \in DOMAIN MODEL_CONFIG THEN DiskOutcomes ELSE {NoDisk}

DisksForPredict(model_name) ==
    IF CacheMiss(model_name, models) THEN DisksFor(model_name) ELSE {NoDisk}

\* The array behaviours a predict can meet: only a real handle with a
\* network or with weights and bias runs the artifact's arrays.
RawsFor(model_name, disk) ==
    LET model == IF CacheMiss(model_name, models)
                 THEN LoadModelResult(model_name, disk, models, rng).models[model_name]
                 ELSE models[model_name]
    IN  IF UsesArrays(model) THEN RawOutcomes ELSE {NoRaw}

Next ==
    \/ \E model_name \in ModelNames : \E disk \in DisksFor(model_name) :
          LoadModel(model_name, disk)
    \/ \E model_name \in ModelNames : \E disk \in DisksForPredict(model_name) :
          \E raw \in RawsFor(model_name, disk) : Predict(model_name, disk, raw)
    \/ \E model_name \in ModelNames : GetModelInfo(model_name)
    \/ ListAvailableModels
    \/ \E image \in Images : \E model_name \in ModelNames :
          PreprocessImage(image, model_name)
    \/ Respond

Spec == Init /\ [][Next]_vars

(***************************************************************************)
(* predict run by concurrent request handlers.  Nothing in the loader      *)
(* takes a lock, so a handler can be preempted between any two statements: *)
(* predict is cut at the points where it reads or writes shared state (the *)
(* cache self.models and numpy's global generator).                        *)
(***************************************************************************)
\* What the artifact's arrays do in the threaded runs: np.dot raises, or one
\* of a few score vectors (as many scores as classes, fewer, more).
SampleRaws ==
    {[raises |-> TRUE, scores |-> NoScores],
     [raises |-> FALSE, scores |-> [num |-> <<1, 2, 1, 0>>, den |-> Scale]],
     [raises |-> FALSE, scores |-> [num |-> <<2, 1, 1, 0, 0>>, den |-> Scale]]}

\* A handler starts predict(image, model_name).
TCall(t, model_name) ==
    /\ threads[t].pc = "idle"
    /\ threads' = [threads EXCEPT ![t] = [@ EXCEPT !.pc = "check", !.name = model_name]]
    /\ UNCHANGED <<models, loadCount, rng, metadata, last, tensor, manager, given, response, otp_verifications, calls>>

\* Line 172: if model_name not in self.models.
TCheck(t) ==
    /\ threads[t].pc = "check"
    /\ threads' = [threads EXCEPT ![t].pc =
                      IF CacheMiss(threads[t].name, models) THEN "load" ELSE "infer"]
    /\ UNCHANGED <<models, loadCount, rng, metadata, last, tensor, manager, given, response, otp_verifications, calls>>

\* load_model up to the value it is about to store (lines 73-88, 94-97): an
\* unregistered name returns False and predict raises ValueError; otherwise
\* the artifact is read or the mock built.
TLoad(t, disk) ==
    LET model_name == threads[t].name
        lr == LoadModelResult(model_name, disk, models, rng)
    IN  /\ threads[t].pc = "load"
        /\ lr.constructed => TotalLoads < MaxLoads
        /\ rng' = lr.rng
        /\ loadCount' = IF lr.constructed
                        THEN [loadCount EXCEPT ![model_name] = @ + 1]
                        ELSE loadCount
        /\ threads' = [threads EXCEPT ![t] =
                          IF lr.ret
                          THEN [@ EXCEPT !.pc = "store", !.handle = lr.models[model_name]]
                          ELSE [@ EXCEPT !.pc = "done", !.out.error = "ValueError"]]
        /\ UNCHANGED <<models, metadata, last, tensor, manager, given, response, otp_verifications, calls>>

\* self.models[model_name] = <the handle>; return True.
TStore(t) ==
    /\ threads[t].pc = "store"
    /\ models' = [models EXCEPT ![threads[t].name] = threads[t].handle]
    /\ threads' = [threads EXCEPT ![t] = [@ EXCEPT !.pc = "infer", !.handle = NotLoaded]]
    /\ UNCHANGED <<loadCount, rng, metadata, last, tensor, manager, given, response, otp_verifications, calls>>

\* Lines 176-185: read the handle; a mock seeds the global generator
\* (np.random.seed(42)) and has yet to draw, a real handle runs its arrays.
TInfer(t, raw) ==
    LET model == models[threads[t].name]
        inf == MatlabInference(model, raw, rng)
    IN  /\ threads[t].pc = "infer"
        /\ IF model.is_mock
           THEN /\ raw = NoRaw
                /\ rng' = RandomSeed(rng)
                /\ threads' = [threads EXCEPT ![t].pc = "draw"]
           ELSE /\ IF UsesArrays(model) THEN raw \in SampleRaws ELSE raw = NoRaw
                /\ rng' = inf.rng
                /\ threads' = [threads EXCEPT ![t] =
                                  [@ EXCEPT !.pc = "done",
                                            !.out = [error |-> inf.error, scores |-> inf.scores]]]
        /\ UNCHANGED <<models, loadCount, metadata, last, tensor, manager, given, response, otp_verifications, calls>>

\* np.random.dirichlet(...) on the global generator as it is now.
TDraw(t) ==
    LET num_classes == Len(MODEL_CONFIG[threads[t].name].classes)
    IN  /\ threads[t].pc = "draw"
        /\ rng' = NextRandom(rng)
        /\ threads' = [threads EXCEPT ![t] =
                          [@ EXCEPT !.pc = "done",
                                    !.out = [error |-> "none",
                                             scores |-> Dirichlet(num_classes, rng)]]]
        /\ UNCHANGED <<models, loadCount, metadata, last, tensor, manager, given, response, otp_verifications, calls>>

\* predict returns or raises; the handler is free again.
TReturn(t) ==
    /\ threads[t].pc = "done"
    /\ threads' = [threads EXCEPT ![t] = IdleThread]
    /\ UNCHANGED <<models, loadCount, rng, metadata, last, tensor, manager, given, response, otp_verifications, calls>>

NextThreads ==
    \E t \in Threads :
        \/ \E model_name \in ModelNames : TCall(t, model_name)
        \/ TCheck(t)
        \/ \E disk \in DisksFor(threads[t].name) : TLoad(t, disk)
        \/ TStore(t)
        \/ \E raw \in SampleRaws \cup {NoRaw} : TInfer(t, raw)
        \/ TDraw(t)
        \/ TReturn(t)

SpecThreads == Init /\ [][NextThreads]_vars

\* A run of predict calls only (and their callers taking the results).
NextPredict ==
    \/ \E model_name \in ModelNames : \E disk \in DisksForPredict(model_name) :
          \E raw \in RawsFor(model_name, disk) : Predict(model_name, disk, raw)
    \/ Respond

SpecPredict == Init /\ [][NextPredict]_vars

(***************************************************************************)
(* The loader constructed over each kind of metadata file, then used for   *)
(* two registered model names and an unregistered one.                     *)
(***************************************************************************)
InitMetadata ==
    /\ models = [name \in ModelNames |-> NotLoaded]
    /\ loadCount = [name \in ModelNames |-> 0]
    /\ rng = 0
    /\ \E file \in MetadataFiles \cup NonObjectMetadataFiles : metadata = LoadMetadata(file)
    /\ last = Idle
    /\ threads = [t \in Threads |-> IdleThread]
    /\ tensor = NoTensor
    /\ manager = NoManager
    /\ given = NoGiven
    /\ response = NoResponse
    /\ otp_verifications = <<>>
    /\ calls = [c \in Callers |-> IdleCall]

\* The names the calls of these runs pass.
MetadataRunNames == {"crop_health", "soil_analysis", "not_a_real_model"}

\* The array behaviours a predict of these runs can meet.
MetadataRunRaws(model_name, disk) ==
    IF RawsFor(model_name, disk) = {NoRaw} THEN {NoRaw} ELSE SampleRaws

NextMetadata ==
    \/ \E model_name \in MetadataRunNames : \E disk \in DisksFor(model_name) :
          LoadModel(model_name, disk)
    \/ \E model_name \in MetadataRunNames : \E disk \in DisksForPredict(model_name) :
          \E raw \in MetadataRunRaws(model_name, disk) : Predict(model_name, disk, raw)
    \/ \E model_name \in MetadataRunNames : GetModelInfo(model_name)
    \/ ListAvailableModels
    \/ Respond

SpecMetadata == InitMetadata /\ [][NextMetadata]_vars

(***************************************************************************)
(* The facades as one process serves them: the crop endpoint over the      *)
(* loader (crop_detection.py), AIModelManager.analyze_crop_health and the  *)
(* endpoint in front of it (ai_analysis.py).  Each call runs to its end    *)
(* without awaiting anything that lets another request in.                 *)
(***************************************************************************)
\* The dicts extract_image_features returns.
FeatureSets ==
    {[has |-> {"sharpness", "contrast", "mean_brightness"},
      sharpness |-> 120, contrast |-> Rational(35, 100), mean_brightness |-> 128],
     [has |-> {"sharpness", "contrast", "mean_brightness"},
      sharpness |-> 60, contrast |-> Rational(25, 100), mean_brightness |-> 70],
     [has |-> {"sharpness", "contrast", "mean_brightness"},
      sharpness |-> 25, contrast |-> Rational(12, 100), mean_brightness |-> 160],
     NoFeatures}

\* The images validate_and_load_image hands to the crop endpoint.
EndpointImages == {PILImage("RGB", <<224, 224>>), PILImage("LA", <<150, 100>>)}

Uploads ==
    [content_type : {"image/png", "text/plain"}, too_large : BOOLEAN,
     image_bytes : ImageBytes]

InitFacade ==
    /\ models = [name \in ModelNames |-> NotLoaded]
    /\ loadCount = [name \in ModelNames |-> 0]
    /\ rng = 0
    /\ \E file \in MetadataFiles : metadata = LoadMetadata(file)
    /\ last = Idle
    /\ threads = [t \in Threads |-> IdleThread]
    /\ tensor = NoTensor
    /\ \E env \in TfEnvs : manager = LoadModels(env)
    /\ given = NoGiven
    /\ response = NoResponse
    /\ otp_verifications = <<>>
    /\ calls = [c \in Callers |-> IdleCall]

\* crop_detection.py, analyze_crop_health, from the loaded image on:
\* preprocess_image, predict, the response; any exception that is not an
\* HTTPException leaves as HTTPException(500) (lines 75-77).
CropDetectionAnalyze(image, disk, raw, features) ==
    LET fn == "crop_detection.analyze_crop_health"
        pre == PreprocessImageResult(image, "crop_health")
    IN  /\ response = NoResponse
        /\ ~pre.raised
        /\ tensor' = pre
        /\ PredictCall("crop_health", disk, raw)
        /\ given' = [NoGiven EXCEPT !.kind = "image", !.features = features]
        /\ response' = IF last'.outcome = "raise"
                       THEN HTTPException(fn, 500, last'.error)
                       ELSE CropAnalysisResponse(last'.result, features)
        /\ UNCHANGED manager

\* await model_manager.analyze_crop_health(image_bytes).
ManagerAnalyzeCropHealth(image_bytes, tfout) ==
    /\ last = Idle
    /\ response = NoResponse
    /\ given' = [NoGiven EXCEPT !.kind = "bytes", !.image_bytes = image_bytes]
    /\ response' = ManagerAnalyzeCropHealthResult(manager, image_bytes, tfout)
    /\ UNCHANGED <<models, loadCount, rng, metadata, last, threads, tensor, manager, otp_verifications, calls>>

\* await model_manager.detect_pests(image_bytes).
ManagerDetectPests(image_bytes, tfout) ==
    /\ last = Idle
    /\ response = NoResponse
    /\ given' = [NoGiven EXCEPT !.kind = "bytes", !.image_bytes = image_bytes]
    /\ response' = ManagerDetectPestsResult(manager, image_bytes, tfout)
    /\ UNCHANGED <<models, loadCount, rng, metadata, last, threads, tensor, manager, otp_verifications, calls>>

\* await model_manager.analyze_soil(image_bytes).
ManagerAnalyzeSoil(image_bytes, tfout) ==
    /\ last = Idle
    /\ response = NoResponse
    /\ given' = [NoGiven EXCEPT !.kind = "bytes", !.image_bytes = image_bytes]
    /\ response' = ManagerAnalyzeSoilResult(manager, image_bytes, tfout)
    /\ UNCHANGED <<models, loadCount, rng, metadata, last, threads, tensor, manager, otp_verifications, calls>>

\* POST /ai/crop/analyze.
AiAnalysisCrop(upload, tfout) ==
    /\ last = Idle
    /\ response = NoResponse
    /\ given' = [NoGiven EXCEPT !.kind = "upload",
                                !.content_type = upload.content_type,
                                !.too_large = upload.too_large,
                                !.image_bytes = upload.image_bytes]
    /\ response' = AiAnalysisCropResult(manager, upload, tfout)
    /\ UNCHANGED <<models, loadCount, rng, metadata, last, threads, tensor, manager, otp_verifications, calls>>

\* The answer goes out; nothing of the request is kept.
FacadeRespond ==
    /\ response # NoResponse
    /\ response' = NoResponse
    /\ given' = NoGiven
    /\ last' = Idle
    /\ tensor' = NoTensor
    /\ UNCHANGED <<models, loadCount, rng, metadata, threads, manager, otp_verifications, calls>>

\* The array behaviours the crop endpoint's predict can meet.
EndpointRaws(disk) ==
    IF RawsFor("crop_health", disk) = {NoRaw} THEN {NoRaw} ELSE SampleRaws

NextFacade ==
    \/ \E image \in EndpointImages : \E disk \in DisksForPredict("crop_health") :
          \E raw \in EndpointRaws(disk) : \E features \in FeatureSets :
             CropDetectionAnalyze(image, disk, raw, features)
    \/ \E image_bytes \in ImageBytes : \E tfout \in TfOutcomes :
          ManagerAnalyzeCropHealth(image_bytes, tfout)
    \/ \E image_bytes \in ImageBytes : \E tfout \in TfOutcomes :
          ManagerDetectPests(image_bytes, tfout)
    \/ \E image_bytes \in ImageBytes : \E tfout \in TfOutcomes :
          ManagerAnalyzeSoil(image_bytes, tfout)
    \/ \E upload \in Uploads : \E tfout \in TfOutcomes : AiAnalysisCrop(upload, tfout)
    \/ FacadeRespond

SpecFacade == InitFacade /\ [][NextFacade]_vars

(***************************************************************************)
(* send_sms_otp and verify_otp as coroutines of one event loop: a          *)
(* coroutine runs without interruption up to its next await on the         *)
(* database, and each database operation is atomic.  The database and      *)
(* Twilio answer; when they do not, both methods return a failure dict     *)
(* and leave the collection as it was.                                     *)
(***************************************************************************)
InitOtp ==
    /\ models = [name \in ModelNames |-> NotLoaded]
    /\ loadCount = [name \in ModelNames |-> 0]
    /\ rng = 0
    /\ metadata = CreateDefaultMetadata
    /\ last = Idle
    /\ threads = [t \in Threads |-> IdleThread]
    /\ tensor = NoTensor
    /\ manager = NoManager
    /\ given = NoGiven
    /\ response = NoResponse
    /\ otp_verifications = <<>>
    /\ calls = [c \in Callers |-> IdleCall]

loaderVars == <<models, loadCount, rng, metadata, last, threads,
                tensor, manager, given, response>>

\* send_sms_otp(phone, purpose): with the service available and the SMS
\* sent (sent), a new document is inserted; otherwise (lines 361-366,
\* 409-422) nothing is stored.
SendSmsOtp(phone, purpose, otp_code, sent) ==
    /\ Len(otp_verifications) < MaxOtps
    /\ otp_verifications' =
          IF sent THEN Append(otp_verifications, OTPVerification(phone, otp_code, purpose))
          ELSE otp_verifications
    /\ UNCHANGED <<loaderVars, calls>>

\* verify_otp up to its second await: find_one (line 440), "not found"
\* (line 450), the attempts check on the copy (line 458).
VerifyFind(c, phone, otp_code, purpose) ==
    LET id == FindOne(otp_verifications, phone, purpose)
        call == [IdleCall EXCEPT !.otp_code = otp_code]
    IN  /\ calls[c].pc = "idle"
        /\ calls' =
              [calls EXCEPT ![c] =
                  IF id = 0
                  THEN Answered(call, OtpFailure("OTP_NOT_FOUND"))
                  ELSE LET otp_doc == [id |-> id,
                                       otp_code |-> otp_verifications[id].otp_code,
                                       attempts |-> otp_verifications[id].attempts,
                                       max_attempts |-> otp_verifications[id].max_attempts,
                                       superseded |-> Superseded(otp_verifications, id)]
                       IN  IF otp_doc.attempts >= otp_doc.max_attempts
                           THEN Answered([call EXCEPT !.otp_doc = otp_doc],
                                         OtpFailure("MAX_ATTEMPTS_EXCEEDED"))
                           ELSE [call EXCEPT !.pc = "inc", !.otp_doc = otp_doc]]
        /\ UNCHANGED <<loaderVars, otp_verifications>>

\* update_one({"_id": ...}, {"$inc": {"attempts": 1}}) (line 466), then the
\* comparison of the copy's code with the submitted one (line 472).
VerifyIncrement(c) ==
    LET call == calls[c]
        id == call.otp_doc.id
    IN  /\ call.pc = "inc"
        /\ otp_verifications' = [otp_verifications EXCEPT ![id].attempts = @ + 1]
        /\ calls' =
              [calls EXCEPT ![c] =
                  IF call.otp_doc.otp_code = call.otp_code
                  THEN [call EXCEPT !.pc = "set"]
                  ELSE Answered(call, OtpFailure("INVALID_OTP"))]
        /\ UNCHANGED loaderVars

\* update_one({"_id": ...}, {"$set": {"is_verified": True, ...}}) (line 474)
\* and the success dict.
VerifySet(c) ==
    LET call == calls[c]
        id == call.otp_doc.id
    IN  /\ call.pc = "set"
        /\ otp_verifications' =
              [otp_verifications EXCEPT ![id].is_verified = TRUE,
                                        ![id].accepted = @ + 1]
        /\ calls' = [calls EXCEPT ![c] = Answered(call, OtpSuccess)]
        /\ UNCHANGED loaderVars

\* The caller of verify_otp takes the dict.
VerifyReturn(c) ==
    /\ calls[c].pc = "done"
    /\ calls' = [calls EXCEPT ![c] = IdleCall]
    /\ UNCHANGED <<loaderVars, otp_verifications>>

\* Time passes: the oldest document whose expires_at has not passed yet
\* expires (all documents live five minutes, so they expire in the order
\* they were inserted).
Expire ==
    LET live == {i \in DOMAIN otp_verifications : ~otp_verifications[i].expired}
    IN  /\ live # {}
        /\ LET i == CHOOSE k \in live : \A j \in live : k <= j
           IN  otp_verifications' = [otp_verifications EXCEPT ![i].expired = TRUE]
        /\ UNCHANGED <<loaderVars, calls>>

NextOtp ==
    \/ \E phone \in Phones : \E purpose \in Purposes : \E otp_code \in OtpCodes :
          \E sent \in BOOLEAN : SendSmsOtp(phone, purpose, otp_code, sent)
    \/ \E c \in Callers : \E phone \in Phones : \E otp_code \in OtpCodes :
          \E purpose \in Purposes : VerifyFind(c, phone, otp_code, purpose)
    \/ \E c \in Callers : VerifyIncrement(c)
    \/ \E c \in Callers : VerifySet(c)
    \/ \E c \in Callers : VerifyReturn(c)
    \/ Expire

SpecOtp == InitOtp /\ [][NextOtp]_vars

(***************************************************************************)
(* The interpretation functions on their own: a label, a confidence and    *)
(* image features are given, and each function is applied to them.         *)
(***************************************************************************)
\* The labels of server.py's analyze_crop (line 115).
ServerHealthClasses == <<"healthy", "diseased", "pest_damage", "nutrient_deficiency">>

\* A label of no soil class.
UnknownSoilLabels == {"peat"}

InterpretLabels ==
    Range(MODEL_CONFIG["crop_health"].classes)
    \cup Range(MODEL_CONFIG["soil_analysis"].classes)
    \cup UnknownSoilLabels
    \cup Range(DefaultCropClasses)

\* class_probabilities as predict would report them for the label: the
\* confidence on the label, the rest of the mass on one other class.
ProbabilitiesFor(label, k) ==
    LET class_names ==
            IF label \in Range(MODEL_CONFIG["crop_health"].classes)
            THEN MODEL_CONFIG["crop_health"].classes
            ELSE MODEL_CONFIG["soil_analysis"].classes
        other == CHOOSE c \in Range(class_names) : c # label
    IN  [c \in Range(class_names) |->
            IF c = label THEN Rational(k, Grain)
            ELSE IF c = other THEN Rational(Grain - k, Grain)
            ELSE Rational(0, Grain)]

GivenInputs ==
    {[NoGiven EXCEPT !.kind = "prediction", !.label = label,
                     !.confidence = Rational(k, Grain),
                     !.probabilities = ProbabilitiesFor(label, k),
                     !.features = features] :
        label \in InterpretLabels, k \in 0..Grain, features \in FeatureSets}

\* The prediction result the given label and confidence stand for.
GivenPrediction ==
    [prediction |-> given.label,
     confidence |-> given.confidence,
     class_probabilities |-> given.probabilities,
     model_name |-> "",
     model_version |-> metadata.version,
     threshold_met |-> ThresholdMet(given.confidence)]

InitInterpret ==
    /\ models = [name \in ModelNames |-> NotLoaded]
    /\ loadCount = [name \in ModelNames |-> 0]
    /\ rng = 0
    /\ metadata = CreateDefaultMetadata
    /\ last = Idle
    /\ threads = [t \in Threads |-> IdleThread]
    /\ tensor = NoTensor
    /\ manager = NoManager
    /\ given \in GivenInputs
    /\ response = NoResponse
    /\ otp_verifications = <<>>
    /\ calls = [c \in Callers |-> IdleCall]

\* crop_detection.py on a crop label.
InterpretCrop ==
    /\ response = NoResponse
    /\ given.label \in Range(MODEL_CONFIG["crop_health"].classes)
    /\ response' = CropAnalysisResponse(GivenPrediction, given.features)
    /\ UNCHANGED <<models, loadCount, rng, metadata, last, threads, tensor, manager, given, otp_verifications, calls>>

\* soil_detection.py on a soil label, or on a label of no soil class.
InterpretSoil ==
    /\ response = NoResponse
    /\ given.label \in Range(MODEL_CONFIG["soil_analysis"].classes) \cup UnknownSoilLabels
    /\ response' = SoilAnalysisResponse(GivenPrediction, given.features)
    /\ UNCHANGED <<models, loadCount, rng, metadata, last, threads, tensor, manager, given, otp_verifications, calls>>

\* ai_models.py, lines 122-131, on one of the manager's labels.
InterpretManagerCrop ==
    /\ response = NoResponse
    /\ given.label \in Range(DefaultCropClasses)
    /\ response' =
          [NoResponse EXCEPT
              !.fn = "AIModelManager._assess_severity",
              !.outcome = "return",
              !.prediction = given.label,
              !.confidence = given.confidence,
              !.recommendations = ManagerCropRecommendations(given.label, given.confidence),
              !.severity = AssessSeverity(given.label, given.confidence)]
    /\ UNCHANGED <<models, loadCount, rng, metadata, last, threads, tensor, manager, given, otp_verifications, calls>>

\* server.py, analyze_crop, line 125, on one of its labels.
InterpretServerCrop ==
    /\ response = NoResponse
    /\ given.label \in Range(ServerHealthClasses)
    /\ response' =
          [NoResponse EXCEPT
              !.fn = "server.get_severity_level",
              !.outcome = "return",
              !.prediction = given.label,
              !.confidence = given.confidence,
              !.severity = GetSeverityLevel(given.confidence, given.label)]
    /\ UNCHANGED <<models, loadCount, rng, metadata, last, threads, tensor, manager, given, otp_verifications, calls>>

NextInterpret ==
    \/ InterpretCrop
    \/ InterpretSoil
    \/ InterpretManagerCrop
    \/ InterpretServerCrop

SpecInterpret == InitInterpret /\ [][NextInterpret]_vars

(***************************************************************************)
(* Properties.                                                             *)
(***************************************************************************)
\* predict has just returned a result (it did not raise).
PredictReturned == last.op = "predict" /\ last.outcome = "return"

\* The positions of a score vector that hold its maximum.
MaxPositions(v) == {i \in 1..Len(v) : \A j \in 1..Len(v) : v[j] <= v[i]}

\* The position of a label in a class list.
PositionOf(label, class_names) == CHOOSE i \in 1..Len(class_names) : class_names[i] = label

\* C1: whenever predict returns a result, for a mock or a real handle, the
\* keys of class_probabilities are exactly the classes MODEL_CONFIG declares
\* for the model, each once.
C1_ProbabilityKeysAreConfigClasses ==
    PredictReturned =>
        /\ last.name \in DOMAIN MODEL_CONFIG
        /\ LET class_names == MODEL_CONFIG[last.name].classes
               keys == DOMAIN last.result.class_probabilities
           IN  /\ keys = Range(class_names)
               /\ Cardinality(keys) = Len(class_names)

\* C1 witness: a result returned from a real handle whose arrays gave more
\* scores than the model has classes.
C1_Witness_RealHandleResult ==
    /\ PredictReturned
    /\ ~models[last.name].is_mock
    /\ Len(last.scores.num) > Len(MODEL_CONFIG[last.name].classes)

\* C2 (as claimed): with predict run by concurrent handlers, the check of
\* the cache and the load that follows a miss are atomic per model name: the
\* handle of a name is constructed at most once, and a handler that goes on
\* to read the cache finds a complete handle there.
C2_CheckThenLoadIsAtomic ==
    /\ \A name \in ModelNames : loadCount[name] <= 1
    /\ \A t \in Threads :
          threads[t].pc \in {"infer", "draw"} =>
              /\ models[threads[t].name].loaded
              /\ models[threads[t].name].is_mock =>
                    models[threads[t].name].classes = MODEL_CONFIG[threads[t].name].classes

\* C3 (as claimed): however often load_model is called for a name, the
\* artifact is read (or the mock handle built) once: the load count of a name
\* never passes 1.
C3_LoadIsIdempotent ==
    \A name \in ModelNames : loadCount[name] <= 1

\* C4: in a run of predict calls the load count of a name is 1 if the name
\* is cached and 0 if not: the first predict loads, no later one reloads.
C4_PredictLoadsOncePerName ==
    \A name \in ModelNames :
        loadCount[name] = IF models[name].loaded THEN 1 ELSE 0

\* C4 witness: a predict that found its model cached by an earlier predict
\* and did not load.
C4_Witness_PredictReusesHandle ==
    /\ last.op = "predict"
    /\ ~last.loaded_now
    /\ models[last.name].loaded
    /\ loadCount[last.name] = 1

\* C5: load_model on a registered name returns True with a handle cached;
\* the handle is a mock over the config's classes when the file is missing or
\* reading it raised, and a real handle only after loadmat succeeded.
C5_LoadNeverFails ==
    (last.op = "load_model" /\ last.name \in DOMAIN MODEL_CONFIG) =>
        LET handle == models[last.name]
            missing_or_unreadable == ~last.disk.exists \/ last.disk.loadmat = "raises"
        IN  /\ last.outcome = "return"
            /\ last.ret
            /\ handle.loaded
            /\ missing_or_unreadable =>
                  /\ handle.is_mock
                  /\ Len(handle.classes) = Len(MODEL_CONFIG[last.name].classes)
            /\ ~handle.is_mock => last.disk.loadmat = "ok"

\* C5 witness: load_model after loadmat raised, with a mock handle cached.
C5_Witness_UnreadableArtifact ==
    /\ last.op = "load_model"
    /\ last.disk.loadmat = "raises"
    /\ models[last.name].is_mock

C7_MismatchedScoresFail ==
    (last.op = "predict" /\ last.scores # NoScores
        /\ Len(last.scores.num) # Len(MODEL_CONFIG[last.name].classes)) =>
        last.outcome = "raise"

\* C8: in a returned result the predicted label is a class of the model, at
\* a position holding the maximum of the scores, and confidence is the
\* probability stored under that label, the largest probability stored.
C8_PredictionIsArgmaxClass ==
    PredictReturned =>
        LET class_names == MODEL_CONFIG[last.name].classes
            r == last.result
        IN  /\ r.prediction \in Range(class_names)
            /\ PositionOf(r.prediction, class_names) \in MaxPositions(last.scores.num)
            /\ r.confidence = r.class_probabilities[r.prediction]
            /\ \A c \in DOMAIN r.class_probabilities :
                  r.class_probabilities[c].num <= r.confidence.num

\* C8 witness: a returned result whose predicted label is not the first class.
C8_Witness_LaterClassPredicted ==
    /\ PredictReturned
    /\ last.result.prediction # MODEL_CONFIG[last.name].classes[1]

\* C9: in a returned result threshold_met is true exactly when confidence is
\* at least CONFIDENCE_THRESHOLD, the one threshold of every model.
C9_ThresholdMetIffAtLeastThreshold ==
    PredictReturned =>
        LET r == last.result
        IN  r.threshold_met <=>
               r.confidence.num * CONFIDENCE_THRESHOLD.den
                   >= CONFIDENCE_THRESHOLD.num * r.confidence.den

\* C9 witness: a result whose confidence is exactly the threshold, with
\* threshold_met true.
C9_Witness_ConfidenceAtThreshold ==
    /\ PredictReturned
    /\ last.result.confidence.num * CONFIDENCE_THRESHOLD.den
          = CONFIDENCE_THRESHOLD.num * last.result.confidence.den
    /\ last.result.threshold_met

\* C10: the predicted label is at the first position holding the maximum:
\* every score before it is strictly smaller.
C10_TieBreaksToLowestIndex ==
    PredictReturned =>
        LET class_names == MODEL_CONFIG[last.name].classes
            i == PositionOf(last.result.prediction, class_names)
        IN  \A j \in 1..Len(last.scores.num) :
               /\ last.scores.num[j] <= last.scores.num[i]
               /\ j < i => last.scores.num[j] < last.scores.num[i]

\* C10 witness: a returned result for scores with two or more maxima.
C10_Witness_TiedMaximum ==
    /\ PredictReturned
    /\ Cardinality(MaxPositions(last.scores.num)) >= 2

\* C11 (as claimed): in every returned result, from a mock or a real handle,
\* each value of class_probabilities lies in [0,1] and the values sum to 1.
C11_ProbabilitiesSumToOne ==
    PredictReturned =>
        LET probs == last.result.class_probabilities
            nums == [c \in DOMAIN probs |-> probs[c].num]
        IN  /\ \A c \in DOMAIN probs :
                  /\ 0 <= probs[c].num
                  /\ probs[c].num <= probs[c].den
                  /\ probs[c].den = last.scores.den
            /\ SumOver(nums, DOMAIN probs) = last.scores.den

\* C12 (as claimed): with predict run by concurrent handlers, the scores a
\* handler draws for a mock handle are those the same call draws when it runs
\* alone (seed, then one draw), whatever the other handlers do in between.
C12_MockDrawUnaffectedByOthers ==
    [][\A t \in Threads :
          (threads[t].pc = "draw" /\ threads'[t].pc = "done") =>
              threads'[t].out.scores
                  = MockPrediction(StrArg(threads[t].name), rng).scores]_vars

\* C13: every result predict returns from a mock handle carries, for its
\* model name, the one distribution drawn right after the seed, whatever
\* calls came before it; so any two mock predictions of a name agree.
C13_MockPredictionIsDeterministic ==
    (PredictReturned /\ models[last.name].is_mock) =>
        LET class_names == MODEL_CONFIG[last.name].classes
            after_seed == Dirichlet(Len(class_names), RandomSeed(0))
        IN  /\ last.scores = after_seed
            /\ last.result.class_probabilities = ClassProbabilities(class_names, after_seed)

\* C13 witness: a mock prediction made after other calls had moved the
\* generator on (the handle was cached earlier and the generator is seeded).
C13_Witness_LaterMockPrediction ==
    /\ PredictReturned
    /\ models[last.name].is_mock
    /\ ~last.loaded_now
    /\ \E other \in ModelNames \ {last.name} : models[other].is_mock

\* C14 (as claimed): once a handle is cached under a name, no later call
\* constructs another one for that name or changes or removes the cached one.
C14_CachedHandleNeverReplaced ==
    [][\A name \in ModelNames :
          models[name].loaded =>
              /\ models'[name] = models[name]
              /\ loadCount'[name] = loadCount[name]]_vars

\* The exception that stands for an undecodable image in this code: PIL's
\* UnidentifiedImageError out of Image.open.
InvalidImageErrors == {"UnidentifiedImageError"}

\* C15 (as claimed): when decoding the image raises inside a facade's
\* analyze, that same error reaches the facade's caller: the call raises it,
\* and answers neither with another error nor with a canned result.
C15_FacadePropagatesInputErrors ==
    response.inner_error \in InvalidImageErrors =>
        /\ response.outcome = "raise"
        /\ response.error = response.inner_error
        /\ ~response.canned

C17_UndecodableImageFails ==
    (given.kind \in {"bytes", "upload"} /\ ~given.image_bytes.decodable) =>
        /\ response.outcome = "raise"
        /\ ~response.canned

\* Labels and severities of the three tables, in lower case.
LowerCase(str) ==
    CASE str = "Healthy" -> "healthy"
      [] str = "Diseased" -> "diseased"
      [] str = "None" -> "none"
      [] str = "High" -> "high"
      [] str = "Medium" -> "medium"
      [] str = "Low" -> "low"
      [] OTHER -> str

CropSeverityFunctions ==
    {"crop_detection.analyze_crop_health", "AIModelManager._assess_severity",
     "server.get_severity_level"}

\* C18 (as claimed): every crop severity function gives "none" for the
\* healthy label at any confidence and "high" for any other label at a
\* confidence of 0.8 or more; the crop facade at "diseased", 0.92 answers
\* severity "high", a non-empty recommendation list and threshold_met true.
C18_CropSeverityTable ==
    response.fn \in CropSeverityFunctions =>
        LET label == LowerCase(given.label)
            severity == LowerCase(response.severity)
        IN  /\ label = "healthy" => severity = "none"
            /\ (label # "healthy" /\ AtLeast(given.confidence, 8, 10)) => severity = "high"
            /\ (response.fn = "crop_detection.analyze_crop_health"
                   /\ label = "diseased" /\ given.confidence.num * 100 = 92 * given.confidence.den) =>
                  /\ severity = "high"
                  /\ response.recommendations # <<>>
                  /\ response.threshold_met

\* The low-confidence recommendations of the soil facade.
SoilLowConfidenceAdvice ==
    {"Consider professional soil testing for accurate analysis",
     "Take multiple soil samples from different areas"}

\* C19: the soil facade answers (never raises) for every label; drainage,
\* water and nutrient retention, workability, pH tendency and the suitability
\* entry are those the tables hold under the label, and loamy's for a label
\* the tables do not hold; for "loamy" drainage is "good" and the list of
\* excellent crops is not empty; at a confidence of the threshold or more no
\* low-confidence recommendation is made.
C19_SoilTablesKeyedWithDefault ==
    response.fn = "soil_detection.analyze_soil_type" =>
        LET key == IF given.label \in DOMAIN SoilPropertiesTable THEN given.label ELSE "loamy"
            props == response.properties
            entry == SoilPropertiesTable[key]
        IN  /\ response.outcome = "return"
            /\ props.drainage = entry.drainage
            /\ props.water_retention = entry.water_retention
            /\ props.nutrient_retention = entry.nutrient_retention
            /\ props.workability = entry.workability
            /\ props.ph_tendency = entry.ph_tendency
            /\ response.suitability = SuitabilityMap[key]
            /\ given.label = "loamy" =>
                  /\ props.drainage = "good"
                  /\ response.suitability.excellent # <<>>
            /\ AtLeast(given.confidence, CONFIDENCE_THRESHOLD.num, CONFIDENCE_THRESHOLD.den) =>
                  Range(response.recommendations) \cap SoilLowConfidenceAdvice = {}

\* C19 witness: the soil facade's answer for "loamy" at confidence 0.89.
C19_Witness_LoamyAt89 ==
    /\ response.fn = "soil_detection.analyze_soil_type"
    /\ given.label = "loamy"
    /\ given.confidence.num * 100 = 89 * given.confidence.den
    /\ response.properties.drainage = "good"
    /\ Len(response.suitability.excellent) > 0

\* C20 (as claimed): preprocess_image on a registered model returns, for
\* every image, a tensor of shape (1, height, width, 3), height and width
\* being the model's input shape.
C20_TensorShape ==
    (last.op = "preprocess_image" /\ last.name \in DOMAIN MODEL_CONFIG) =>
        LET input_shape == MODEL_CONFIG[last.name].input_shape
        IN  /\ ~tensor.raised
            /\ tensor.shape = <<1, input_shape[1], input_shape[2], 3>>

\* The errors _mock_prediction raises when _matlab_inference calls it as a
\* fallback: TypeError on the class list, KeyError on the class count.
FallbackErrors == {"TypeError", "KeyError"}

\* C21 (as claimed): predict on a real handle of unrecognised structure (no
\* network, no weights and bias, no classifier) returns a complete result
\* over the model's class list, and predict on a real handle whose inference
\* raises does not end in an error of the fallback: it returns too.
C21_FallbackReturnsMockResult ==
    (last.op = "predict" /\ last.name \in DOMAIN MODEL_CONFIG
        /\ models[last.name].loaded /\ ~models[last.name].is_mock) =>
        /\ last.error \notin FallbackErrors
        /\ (~UsesArrays(models[last.name]) /\ "classifier" \notin models[last.name].keys) =>
              /\ last.outcome = "return"
              /\ DOMAIN last.result.class_probabilities
                    = Range(MODEL_CONFIG[last.name].classes)

\* The recommendations that ask for new or better material.
CropLowConfidenceAdvice ==
    {"Consider taking additional photos from different angles for better analysis"}

CropRetakeAdvice ==
    {"Retake photo with better lighting conditions",
     "Ensure image is sharp and well-focused",
     "Take photo during optimal lighting (avoid shadows)"}

ResubmitAdvice == CropLowConfidenceAdvice \cup CropRetakeAdvice \cup SoilLowConfidenceAdvice

\* C22 (as claimed): when threshold_met is true the recommendation list of
\* the crop facade and of the soil facade holds no recommendation to retake
\* or resubmit.
C22_ResubmitOnlyBelowThreshold ==
    (response.fn \in {"crop_detection.analyze_crop_health",
                      "soil_detection.analyze_soil_type"}
        /\ response.threshold_met) =>
        Range(response.recommendations) \cap ResubmitAdvice = {}

\* Sharpness and contrast as _assess_image_quality reads them: below "good".
FairOrPoor(features) ==
    LET sharpness == IF "sharpness" \in features.has THEN features.sharpness ELSE 0
        contrast == IF "contrast" \in features.has THEN features.contrast
                    ELSE Rational(0, 1)
    IN  ~(sharpness > 50 /\ contrast.num * 10 > 2 * contrast.den)

\* C22 (amended): in both facades the low-confidence recommendations are in
\* the list exactly when threshold_met is false; the crop facade adds its
\* three retake recommendations exactly when the image quality is fair or
\* poor, whatever the confidence; the soil facade never adds them.
C22_ResubmitByConfidenceRetakeByQuality ==
    LET recs == Range(response.recommendations)
    IN  /\ response.fn = "crop_detection.analyze_crop_health" =>
              /\ (CropLowConfidenceAdvice \subseteq recs) = ~response.threshold_met
              /\ (recs \cap CropLowConfidenceAdvice = {}) = response.threshold_met
              /\ (CropRetakeAdvice \subseteq recs) = FairOrPoor(given.features)
              /\ (recs \cap CropRetakeAdvice = {}) = ~FairOrPoor(given.features)
        /\ response.fn = "soil_detection.analyze_soil_type" =>
              /\ (SoilLowConfidenceAdvice \subseteq recs) = ~response.threshold_met
              /\ (recs \cap SoilLowConfidenceAdvice = {}) = response.threshold_met
              /\ recs \cap (CropRetakeAdvice \cup CropLowConfidenceAdvice) = {}

\* C22 witness: the crop facade answers at a confidence of the threshold or
\* more for an image of poor quality, with a retake recommendation.
C22_Witness_RetakeAboveThreshold ==
    /\ response.fn = "crop_detection.analyze_crop_health"
    /\ response.threshold_met
    /\ response.image_quality = "poor"
    /\ "Retake photo with better lighting conditions" \in Range(response.recommendations)

\* The metadata a readable file of JSON-object content gives.
FileMetadata ==
    {file.content : file \in {f \in MetadataFiles : f.exists /\ ~f.raises}}

\* C23: the metadata is set by the constructor and never changes afterwards;
\* it is the built-in default unless a file was there and could be read;
\* with the default in use load_model answers as always (True for a
\* registered name) and a predict that returns gives the result it gives
\* with a metadata file present, up to model_version, which is the
\* default's "1.0.0".
C23_DefaultMetadataNeverBlocks ==
    [][/\ metadata' = metadata
       /\ \/ metadata' = CreateDefaultMetadata
          \/ metadata' \in FileMetadata \cup {f.content : f \in NonObjectMetadataFiles}
       /\ metadata' = CreateDefaultMetadata =>
             /\ last'.op = "load_model" =>
                   /\ last'.outcome = "return"
                   /\ last'.ret = (last'.name \in DOMAIN MODEL_CONFIG)
             /\ (last'.op = "predict" /\ last'.outcome = "return") =>
                   /\ last'.result.model_version = "1.0.0"
                   /\ \A md \in FileMetadata :
                         last'.result =
                             [BuildResult(last'.name, last'.scores, md).result
                                 EXCEPT !.model_version = "1.0.0"]
             /\ last'.error # "AttributeError"]_vars

\* C23 witness: a loader constructed without a readable metadata file has
\* loaded a model and returned a prediction.
C23_Witness_PredictOnDefaultMetadata ==
    /\ metadata = CreateDefaultMetadata
    /\ PredictReturned
    /\ last.loaded_now
    /\ last.result.model_version = "1.0.0"

\* The four calls of the loader that take or list model names.
LoaderCalls == {"load_model", "predict", "get_model_info", "list_available_models"}

\* C24: across every call of load_model, predict, get_model_info and
\* list_available_models, with registered and unregistered names, every name
\* the cache holds a handle for is a registered one, and a call with an
\* unregistered name leaves the cache as it was.
C24_CacheKeysAreRegistered ==
    [][/\ \A name \in ModelNames :
             models'[name].loaded => name \in DOMAIN MODEL_CONFIG
       /\ (last'.op \in LoaderCalls /\ last'.op # "list_available_models"
              /\ last'.name \notin DOMAIN MODEL_CONFIG) =>
             /\ models' = models
             /\ loadCount' = loadCount
             /\ ~last'.loaded_now]_vars

\* C24 witness: load_model has just been refused for an unregistered name
\* while the cache holds handles for two registered names.
C24_Witness_UnregisteredAfterLoads ==
    /\ last.op = "load_model"
    /\ last.name \notin DOMAIN MODEL_CONFIG
    /\ ~last.ret
    /\ Cardinality({name \in ModelNames : models[name].loaded}) = 2

\* C25: get_model_info and list_available_models leave the cache, the load
\* counts and the generator as they were; with dict metadata they return;
\* a returned listing has exactly the registered names as its keys, each
\* entry being that name's info; and every reported "loaded" is true exactly
\* when the cache held a handle for the name when the call was made.
C25_InfoCallsAreReadOnly ==
    [][(last = Idle /\ last'.op \in {"get_model_info", "list_available_models"}) =>
          /\ models' = models
          /\ loadCount' = loadCount
          /\ rng' = rng
          /\ ~last'.loaded_now
          /\ metadata.is_dict => last'.outcome = "return"
          /\ (last'.op = "list_available_models" /\ last'.outcome = "return") =>
                /\ DOMAIN last'.listing = DOMAIN MODEL_CONFIG
                /\ \A name \in DOMAIN last'.listing :
                      /\ last'.listing[name].name = name
                      /\ last'.listing[name].loaded = models[name].loaded
          /\ (last'.op = "get_model_info" /\ last'.outcome = "return"
                 /\ last'.name \in DOMAIN MODEL_CONFIG) =>
                /\ last'.info.name = last'.name
                /\ last'.info.loaded = models[last'.name].loaded]_vars

\* C25 witness: a listing returned while one registered model is cached and
\* another is not, reporting just that.
C25_Witness_ListingWithOneLoaded ==
    /\ last.op = "list_available_models"
    /\ last.outcome = "return"
    /\ \E a, b \in DOMAIN MODEL_CONFIG :
          /\ models[a].loaded /\ last.listing[a].loaded
          /\ ~models[b].loaded /\ ~last.listing[b].loaded

\* C26 (as claimed): every model of the manager whose artifact exists and
\* loads (tensorflow imported, load_model not raising on that file) has a
\* handle, whatever happened to the models loaded before it.
C26_ManagerLoadsAreIndependent ==
    (manager # NoManager /\ manager.env.tf) =>
        /\ manager.env.crop_file = "ok" => manager.crop_model # "None"
        /\ manager.env.pest_file = "ok" => manager.pest_model # "None"
        /\ manager.env.soil_file = "ok" => manager.soil_model # "None"

\* The three analysis methods of AIModelManager, each with the model it uses,
\* its canned result and the keys of the dict it builds.
ManagerMethods ==
    {"AIModelManager.analyze_crop_health", "AIModelManager.detect_pests",
     "AIModelManager.analyze_soil"}

ManagerModelOf(fn) ==
    CASE fn = "AIModelManager.analyze_crop_health" -> manager.crop_model
      [] fn = "AIModelManager.detect_pests" -> manager.pest_model
      [] fn = "AIModelManager.analyze_soil" -> manager.soil_model

ManagerMockOf(fn) ==
    CASE fn = "AIModelManager.analyze_crop_health" -> MockCropAnalysis
      [] fn = "AIModelManager.detect_pests" ->
             [MockPestDetection EXCEPT !.fn = "AIModelManager.detect_pests"]
      [] fn = "AIModelManager.analyze_soil" ->
             [MockSoilAnalysis EXCEPT !.fn = "AIModelManager.analyze_soil"]

ManagerKeysOf(fn) ==
    CASE fn = "AIModelManager.analyze_crop_health" ->
             {"status", "confidence", "health_score", "recommendations",
              "detected_issues", "severity"}
      [] fn = "AIModelManager.detect_pests" ->
             {"pest_detected", "pest_type", "confidence", "severity",
              "treatment_recommendations", "prevention_tips", "economic_impact"}
      [] fn = "AIModelManager.analyze_soil" ->
             {"soil_type", "confidence", "ph_level", "moisture_content",
              "nutrient_levels", "organic_matter", "fertility_score",
              "recommendations", "suitable_crops"}

\* C27: analyze_crop_health, detect_pests and analyze_soil of AIModelManager
\* always return, never raise; the dict has the method's fixed keys whether
\* it is computed or canned; and it is the method's canned result whenever
\* its model is None, the bytes cannot be decoded, or a step inside raised.
C27_ManagerMethodsNeverRaise ==
    response.fn \in ManagerMethods =>
        /\ response.outcome = "return"
        /\ response.error = "none"
        /\ response.keys = ManagerKeysOf(response.fn)
        /\ (ManagerModelOf(response.fn) = "None" \/ response.inner_error # "none"
               \/ ~given.image_bytes.decodable) =>
              /\ response.canned
              /\ [response EXCEPT !.inner_error = "none"] = ManagerMockOf(response.fn)

\* C27 witness: detect_pests has answered with its canned result because the
\* pest model's predict raised on a decodable image.
C27_Witness_CannedAfterRaise ==
    /\ response.fn = "AIModelManager.detect_pests"
    /\ manager.pest_model # "None"
    /\ given.image_bytes.decodable
    /\ response.inner_error = "ValueError"
    /\ response.canned

\* C28 (as claimed): no document is accepted by more than one verify_otp
\* call, whether the calls follow one another or interleave.
C28_OtpAcceptedAtMostOnce ==
    \A id \in DOMAIN otp_verifications : otp_verifications[id].accepted <= 1

\* C29 (as claimed): no document's attempts counter exceeds its
\* max_attempts, and a verify_otp call that finds a document whose attempts
\* have reached max_attempts answers MAX_ATTEMPTS_EXCEEDED.
C29_AttemptsNeverExceedMax ==
    /\ \A id \in DOMAIN otp_verifications :
          otp_verifications[id].attempts <= otp_verifications[id].max_attempts
    /\ \A c \in Callers :
          (calls[c].pc = "done" /\ calls[c].otp_doc.id # 0
              /\ calls[c].otp_doc.attempts >= calls[c].otp_doc.max_attempts) =>
             calls[c].result = OtpFailure("MAX_ATTEMPTS_EXCEEDED")

\* C30 (as claimed, for an older code that differs from the newer ones): a
\* verify_otp call never succeeds against a document that already had a
\* newer document for its phone and purpose when the call read it.
C30_SupersededOtpNeverAccepted ==
    \A c \in Callers :
        LET id == calls[c].otp_doc.id
        IN  (/\ calls[c].pc = "done"
             /\ calls[c].result.success
             /\ calls[c].otp_doc.superseded) =>
               \E j \in DOMAIN otp_verifications :
                   /\ j > id
                   /\ otp_verifications[j].phone = otp_verifications[id].phone
                   /\ otp_verifications[j].purpose = otp_verifications[id].purpose
                   /\ otp_verifications[j].otp_code = otp_verifications[id].otp_code

=============================================================================
